---- MODULE Spec2Model ----
(***************************************************************************)
(* AI request orchestration and caching layer of TrueV1sion/Visible.       *)
(*                                                                         *)
(*   AIOrchestrator      backend/app/services/ai_orchestrator.py           *)
(*   cached_ai_request   backend/app/services/cache.py                     *)
(*   AIAgentFactory      backend/app/ai/factory.py                         *)
(*   BaseAgent           ai_orchestration/src/base_agent.py                *)
(*                                                                         *)
(* One caller (an element of Callers) runs one process_with_agent call at  *)
(* a time; the calls of different callers interleave at the await points   *)
(* of the asyncio event loop, so every action below is the code between    *)
(* two consecutive suspension points of one coroutine.                     *)
(***************************************************************************)
EXTENDS Integers, Sequences, FiniteSets, TLC

\* ------------------------------------------------------------------ bounds
NumCallers == 2
MaxConcurrent == 1
ExecSlow == 14
TimeoutOverride == 5
NumValues == 2
MaxRequests == 20
SmallTtl == 1
CacheMaxSize == 2
NumExpertKeys == 3
MaxTicks == 3
MaxObserved == 3
RequestsPerMinute == 1
MaxClockSteps == 2

\* ------------------------------------------------------- program constants
timeout == 30
max_retries == 3
retry_delay == 1
AI_CACHE_TTL == 3600
cache_ttl == 3600
SecondsPerDay == 86400

Callers == 1..NumCallers
\* the client addresses request.client.host takes
Clients == {1, 2}
None == "None"

\* settings.MAX_CONCURRENT_AI_REQUESTS, read once by AIOrchestrator.__init__
max_concurrent_requests == MaxConcurrent

\* How long one call of agent.process() may take, in seconds: under Spec a call
\* answers at once or hangs until the deadline, under SpecWrapper it answers at
\* once or after ExecSlow seconds.
HangDurations == {0, timeout}
ExecDurations == {0, ExecSlow}

\* --------------------------------------------------------------- inputs
\* input_data values: a dict is a sequence of <<field, value>> pairs in
\* insertion order, and each value is itself a dict of <<field, number>> pairs
\* in insertion order; a list stands for any non-dict, non-empty value.
InputX == [type |-> "dict",
           items |-> << <<1, << <<1, 7>>, <<2, 8>> >> >>, <<2, << <<1, 8>> >> >> >>]
InputList == [type |-> "list", items |-> << <<0, << <<1, 7>> >> >> >>]
InputEmpty == [type |-> "dict", items |-> << >>]
Inputs == {InputX, InputList, InputEmpty}

AgentTypes == {"aggregator", "battlecard_generation", ""}
DefaultModel == "auto"

\* AIAgentFactory._agents
list_available_agents ==
    {"content_analysis", "competitive_intelligence", "objection_handling",
     "use_case", "aggregator"}

\* an argument check that lets an empty input through
TruthyDataAlways(d) == TRUE

\* Python truthiness of agent_type and of input_data
TruthyStr(s) == s /= ""
TruthyData(d) == Len(d.items) > 0

\* BaseAgent.validate_input
validate_input(input_data) == input_data.type = "dict"

\* ------------------------------------------------------------ cache keys
RECURSIVE InsertSorted(_, _)
InsertSorted(p, s) ==
    IF s = << >> THEN <<p>>
    ELSE IF p[1] <= Head(s)[1] THEN <<p>> \o s
    ELSE <<Head(s)>> \o InsertSorted(p, Tail(s))

RECURSIVE SortItems(_)
SortItems(s) == IF s = << >> THEN << >> ELSE InsertSorted(Head(s), SortItems(Tail(s)))

\* the nested dicts of a value, each in key order
SortValues(items) == [i \in 1..Len(items) |-> <<items[i][1], SortItems(items[i][2])>>]

\* a serialisation that keeps the insertion order of the fields
json_dumps_unsorted(input_data) == <<input_data.type, input_data.items>>

\* json.dumps(input_data, sort_keys=True): the items of every dict, nested ones
\* included, in key order; the elements of a list in the order they have
json_dumps_sorted(input_data) ==
    IF input_data.type = "dict"
    THEN <<"dict", SortItems(SortValues(input_data.items))>>
    ELSE <<"list", SortValues(input_data.items)>>

\* hashlib.md5(...).hexdigest(), taken as collision free
md5(s) == <<"md5", s>>

\* f"ai:{agent_type}:{model}:{data_hash}": the text up to the digest is one
\* string, built by concatenation; the digest, 32 hexadecimal digits, ends
\* the key
cache_key_for_ai_request(agent_type, input_data, model) ==
    <<"ai:" \o agent_type \o ":" \o model \o ":", md5(json_dumps_sorted(input_data))>>

\* CacheService._generate_cache_key
generate_cache_key(namespace, key) == <<"battlecard", namespace, md5(key)>>

RequestKey(agent_type, input_data, model) ==
    generate_cache_key("ai_responses", cache_key_for_ai_request(agent_type, input_data, model))

CacheKeys ==
    {RequestKey(a, i, DefaultModel) : a \in list_available_agents \cap AgentTypes, i \in Inputs}

\* --------------------------------------------------------------- state
VARIABLES
    pc,               \* position of each caller's process_with_agent call
    call,             \* arguments of the call in progress
    outcome,          \* how the caller's last call ended
    request_semaphore,\* value of asyncio.Semaphore
    active_requests,  \* request ids tracked by the orchestrator
    task,             \* state of the asyncio.Task of _process_with_caching
    must_cancel,      \* Task.cancel() was requested and not yet delivered
    agent,            \* BaseAgent instance of the request: its counters
    attempt,          \* loop variable of _process_with_retries
    elapsed,          \* seconds since start_time of process_with_timeout
    execCalls,        \* number of agent.process() invocations of the request
    delays,           \* the asyncio.sleep delays of the request, in order
    validated,        \* validate_input was evaluated for the request
    last_exception,   \* last_exception of _process_with_retries
    cache,            \* Redis: cache key -> stored entry
    cancel_result,    \* what cancel_request returned for the request in flight
    battlecard,       \* the generate_battlecard call in progress
    orchestration,    \* the OrchestrationAgent.process call in progress
    key_request,      \* arguments and result of a cache key derivation
    health,           \* counters of an agent and its last health report
    construction,     \* the configured capacity and the state of AIOrchestrator.__init__
    expert,           \* ExpertSystemAgent: its in-process cache, the clock and the last operation
    roundtrip,        \* a value on its way through CacheService.set and get
    observed,         \* an observer's count of the requests that reached the wrapper and of their errors
    rate_limit        \* RateLimitMiddleware: the time stamps it keeps for each client

vars == <<pc, call, outcome, request_semaphore, active_requests, task, must_cancel,
          agent, attempt, elapsed, execCalls, delays, validated, last_exception, cache,
          cancel_result, battlecard, orchestration, key_request, health, construction, expert, roundtrip, observed, rate_limit>>

\* the state of the orchestrator, its tasks and the cache
orchestratorVars ==
    <<pc, call, outcome, request_semaphore, active_requests, task, must_cancel,
      agent, attempt, elapsed, execCalls, delays, validated, last_exception, cache,
      cancel_result>>

\* options.get('cache_ttl'): the Python value None, or a number of seconds
NoTtl == << >>
Ttl(seconds) == <<seconds>>

NoCall ==
    [agent_type |-> None,
     input_data |-> [type |-> None, items |-> << >>],
     options |-> [cache_ttl |-> NoTtl, model_preference |-> None, timeout_override |-> 0]]
NoAgent == [request_count |-> 0, error_count |-> 0, total_processing_time |-> 0]
NoTask == [at |-> "none"]

\* ProcessingOptions: the orchestrator reads options.get('cache_ttl') and
\* options.get('model_preference', 'auto'); no code reads a timeout from them
OptionsSet ==
    {[cache_ttl |-> NoTtl, model_preference |-> DefaultModel, timeout_override |-> 0]}
WrapperOptionsSet ==
    {[cache_ttl |-> ttl, model_preference |-> DefaultModel, timeout_override |-> t] :
        ttl \in {NoTtl, Ttl(0), Ttl(SmallTtl)}, t \in {0, TimeoutOverride}}

NoOutcome == [kind |-> "none"]

TaskPending(c) == task[c].at \in {"cache_get", "executing", "sleeping", "cache_set"}
TaskDone(c) == task[c].at \in {"finished", "failed", "cancelled"}

\* AIOrchestrator._generate_request_id: uuid4, one fresh id per call
generate_request_id(c) == c

NoBattlecard ==
    [at |-> "idle", invoked |-> << >>,
     aggregation_result |-> [status |-> None, data |-> 0],
     battlecard_input |-> InputEmpty, ended |-> [kind |-> "none"]]
NoOrchestration ==
    [at |-> "idle",
     input_data |-> [keys |-> {}, search_terms |-> FALSE, payer_identifier |-> FALSE],
     steps_completed |-> << >>,
     failed |-> << >>,
     data |-> [collected |-> "none", cleaned |-> "none", summaries |-> "none",
               analysis |-> "none", insights |-> "none"],
     result |-> [status |-> None, error |-> FALSE]]
NoKeyRequest == [at |-> "idle"]
NoHealth == [at |-> "idle"]
NoRoundTrip == [at |-> "idle"]
\* RateLimitMiddleware.__init__: self.requests = {}; a client the dict has no
\* list for has the empty list, which is what dispatch gives it first
NoRateLimit ==
    [requests |-> [k \in Clients |-> << >>], admitted |-> [k \in Clients |-> << >>],
     now |-> 0, steps |-> 0, last |-> [client |-> 0, status_code |-> 0]]
\* nobody counts the requests
NotObserved == [at |-> "off"]
\* ExpertSystemAgent.__init__ with caching enabled: self.cache = {}
NoExpert == [cache |-> << >>, now |-> 0, ticks |-> 0, last |-> [op |-> "none"]]

\* no request was made yet
NoRequests ==
    /\ pc = [c \in Callers |-> "idle"]
    /\ call = [c \in Callers |-> NoCall]
    /\ outcome = [c \in Callers |-> NoOutcome]
    /\ active_requests = {}
    /\ task = [c \in Callers |-> NoTask]
    /\ must_cancel = [c \in Callers |-> FALSE]
    /\ agent = [c \in Callers |-> NoAgent]
    /\ attempt = [c \in Callers |-> 0]
    /\ elapsed = [c \in Callers |-> 0]
    /\ execCalls = [c \in Callers |-> 0]
    /\ delays = [c \in Callers |-> << >>]
    /\ validated = [c \in Callers |-> FALSE]
    /\ last_exception = [c \in Callers |-> None]
    /\ cache = [k \in CacheKeys |-> [present |-> FALSE, doc |-> [data |-> [status |-> None, data |-> 0], type |-> "dict"], ttl |-> 0]]
    /\ cancel_result = [c \in Callers |-> FALSE]

\* AIOrchestrator() was constructed with the capacity max_concurrent_requests
Constructed == [MAX_CONCURRENT_AI_REQUESTS |-> max_concurrent_requests, at |-> "ready"]

OrchestratorInit ==
    /\ NoRequests
    /\ request_semaphore = max_concurrent_requests

Init ==
    /\ OrchestratorInit
    /\ construction = Constructed
    /\ expert = NoExpert
    /\ roundtrip = NoRoundTrip
    /\ observed = NotObserved
    /\ rate_limit = NoRateLimit
    /\ battlecard = NoBattlecard
    /\ orchestration = NoOrchestration
    /\ key_request = NoKeyRequest
    /\ health = NoHealth

\* ------------------------------------------------- AIOrchestrator (outer)
Returned(status) == [kind |-> "return", status |-> status]
Raised(exc) == [kind |-> "raise", exc |-> exc]

\* process_with_agent, lines 27-49: argument checks, request id
CallProcessWithAgent(c, agent_type, input_data, options) ==
    /\ construction.at = "ready"
    /\ pc[c] = "idle"
    /\ IF ~TruthyStr(agent_type) \/ ~TruthyData(input_data)
          \/ agent_type \notin list_available_agents
       THEN /\ outcome' = [outcome EXCEPT ![c] = Raised("ValidationError")]
            /\ UNCHANGED <<pc, call>>
       ELSE /\ pc' = [pc EXCEPT ![c] = "acquire"]
            /\ call' = [call EXCEPT ![c] = [agent_type |-> agent_type,
                                            input_data |-> input_data,
                                            options |-> options]]
            /\ outcome' = [outcome EXCEPT ![c] = NoOutcome]
    /\ UNCHANGED <<request_semaphore, active_requests, task, must_cancel, agent,
                   attempt, elapsed, execCalls, delays, validated, last_exception, cache>>
    /\ UNCHANGED cancel_result
    /\ UNCHANGED <<orchestration, key_request, health, construction, expert, roundtrip, observed, rate_limit>>

\* a process_with_agent call made by a client of the orchestrator
ProcessWithAgent(c, agent_type, input_data, options) ==
    /\ CallProcessWithAgent(c, agent_type, input_data, options)
    /\ UNCHANGED battlecard

\* a semaphore that never blocks
SemaphoreUnbounded == TRUE

\* asyncio.Semaphore.acquire: enabled while a slot is free
SemaphoreFree == request_semaphore > 0

\* process_with_agent, lines 52-62: async with semaphore, create_task, track, await
AcquireSlot(c) ==
    /\ pc[c] = "acquire"
    /\ SemaphoreFree
    /\ request_semaphore' = request_semaphore - 1
    /\ task' = [task EXCEPT ![c] = [at |-> "cache_get"]]
    /\ active_requests' = active_requests \cup {generate_request_id(c)}
    /\ pc' = [pc EXCEPT ![c] = "await_task"]
    /\ UNCHANGED <<call, outcome, must_cancel, agent, attempt, elapsed, execCalls,
                   delays, validated, last_exception, cache>>
    /\ UNCHANGED cancel_result
    /\ UNCHANGED <<battlecard, orchestration, key_request, health, construction, expert, roundtrip, observed, rate_limit>>

\* except clauses that re-raise the task's exception as it is
OutcomeOfUntranslated(t) ==
    CASE t.at = "finished" -> Returned(t.result.status)
      [] t.at = "failed" -> Raised(t.exc)
      [] t.at = "cancelled" -> Raised("CancelledError")

\* except clauses that catch the cancellation with the other exceptions
OutcomeOfCancelCaught(t) ==
    CASE t.at = "finished" -> Returned(t.result.status)
      [] t.at = "failed" -> Raised("AIGenerationError")
      [] t.at = "cancelled" -> Raised("AIGenerationError")

\* what the except clauses of process_with_agent make of the task's end: a
\* result is returned, every Exception becomes AIGenerationError, and
\* CancelledError (a BaseException) passes through
OutcomeOf(t) ==
    CASE t.at = "finished" -> Returned(t.result.status)
      [] t.at = "failed" -> Raised("AIGenerationError")
      [] t.at = "cancelled" -> Raised("CancelledError")

\* AIGenerationError.__init__: the details of the exception
AIGenerationErrorDetails(retry_count, maximum) ==
    [retry_count |-> retry_count, max_retries |-> maximum,
     retryable |-> retry_count < maximum]

\* details.get('retryable') of the exception a call ends with, read as a
\* boolean: process_with_agent builds AIGenerationError with the defaults
\* retry_count = 0 and max_retries = 3; ValidationError and CancelledError
\* carry no such member
RetryableHint(exc) ==
    exc = "AIGenerationError" /\ AIGenerationErrorDetails(0, 3).retryable

\* an exit path that leaves the async with block without releasing
ReleaseSlotLeaked(value) == value

\* asyncio.Semaphore.release at the exit of the async with block
ReleaseSlot(value) == value + 1

\* a finally clause that forgets the handle
PopRequestForgotten(ids, id) == ids

\* the finally clause of line 75
PopRequest(ids, id) == ids \ {id}

\* process_with_agent, lines 62-97: the awaited task is done; finally pops the
\* handle, the async with releases the slot, the result is returned or the
\* exception translated
ResumeFromTask(c) ==
    /\ pc[c] = "await_task"
    /\ TaskDone(c)
    /\ active_requests' = PopRequest(active_requests, generate_request_id(c))
    /\ request_semaphore' = ReleaseSlot(request_semaphore)
    /\ outcome' = [outcome EXCEPT ![c] = OutcomeOf(task[c])]
    /\ pc' = [pc EXCEPT ![c] = "idle"]
    /\ call' = [call EXCEPT ![c] = NoCall]
    /\ task' = [task EXCEPT ![c] = NoTask]
    /\ agent' = [agent EXCEPT ![c] = NoAgent]
    /\ attempt' = [attempt EXCEPT ![c] = 0]
    /\ elapsed' = [elapsed EXCEPT ![c] = 0]
    /\ execCalls' = [execCalls EXCEPT ![c] = 0]
    /\ delays' = [delays EXCEPT ![c] = << >>]
    /\ validated' = [validated EXCEPT ![c] = FALSE]
    /\ last_exception' = [last_exception EXCEPT ![c] = None]
    /\ cancel_result' = [cancel_result EXCEPT ![c] = FALSE]
    /\ UNCHANGED <<must_cancel, cache>>
    /\ UNCHANGED <<orchestration, key_request, health, construction, expert, roundtrip, observed, rate_limit>>

\* the return of a process_with_agent call to a client of the orchestrator
AwaitTaskReturn(c) ==
    /\ ResumeFromTask(c)
    /\ UNCHANGED battlecard

\* ------------------------------------------------------------ CacheService
\* CacheService._serialize_value / _deserialize_value: the stored JSON document
\* and the 'data' member read back from it
serialize_value(value) == [data |-> value, type |-> "dict"]
deserialize_value(serialized) == serialized.data

\* the Python value None where a result dict is expected
NoResult == [status |-> None, data |-> 0]
\* a key Redis does not hold
NoEntry == [present |-> FALSE, doc |-> serialize_value(NoResult), ttl |-> 0]

\* a get that never finds an entry
CacheGetAlwaysMiss(key, store_ok) == NoResult

\* a get that answers from the entry whether or not the store was reached
CacheGetIgnoringFailure(key, store_ok) ==
    IF cache[key].present THEN deserialize_value(cache[key].doc) ELSE NoResult

\* CacheService.get: None without a client, on a Redis error and on a miss
CacheGet(key, store_ok) ==
    IF store_ok /\ cache[key].present THEN deserialize_value(cache[key].doc) ELSE NoResult

\* a set that falls back to the default only when no ttl is passed: a ttl of
\* zero goes to setex as it is
EffectiveTtlUnlessNone(ttl) == IF ttl = NoTtl THEN AI_CACHE_TTL ELSE ttl[1]

\* ttl = ttl or self.default_ttl: None and 0 are both falsy
EffectiveTtl(ttl) == IF ttl = NoTtl \/ ttl[1] = 0 THEN AI_CACHE_TTL ELSE ttl[1]

\* a set that keeps the entry a key already has
CacheSetNx(key, value, ttl) ==
    IF cache[key].present
    THEN cache
    ELSE [cache EXCEPT ![key] = [present |-> TRUE, doc |-> serialize_value(value),
                                 ttl |-> EffectiveTtl(ttl)]]

\* CacheService.set: redis setex(cache_key, ttl, serialized)
CacheSetEx(key, value, ttl) ==
    [cache EXCEPT ![key] = [present |-> TRUE, doc |-> serialize_value(value),
                            ttl |-> EffectiveTtl(ttl)]]

CallKey(c) ==
    RequestKey(call[c].agent_type, call[c].input_data, call[c].options.model_preference)

\* ------------------------------------------------ BaseAgent (the wrapper)
Finished(result) == [at |-> "finished", result |-> result]
Failed(exc) == [at |-> "failed", exc |-> exc]
Cancelled == [at |-> "cancelled"]

CountError(a) == [a EXCEPT !.error_count = @ + 1]

\* a delay that does not grow
BackoffDelayConstant(n) == retry_delay

\* delay = self.retry_delay * (2 ** attempt), attempt being the index of the
\* attempt that has just failed
BackoffDelay(n) == retry_delay * (2 ^ n)

\* a loop that remembers the first exception only
RecordFirstException(last, e) == IF last = None THEN e ELSE last

\* last_exception = e
RecordException(last, e) == e

\* a wrapper that does not look at the validation result
MayExecuteUnchecked(input_data) == TRUE

\* if not self.validate_input(input_data): raise ValueError
MayExecute(input_data) == validate_input(input_data)

\* a retry loop that sleeps once more after the last attempt
MayRetryOnceMore(n) == n <= max_retries

\* if attempt < self.max_retries: sleep and retry
MayRetry(n) == n < max_retries

\* if isinstance(e, (ValueError, TypeError)): raise; every other exception
\* goes on to the retry branch
Retryable(exc) == exc \notin {"ValueError", "TypeError"}

\* a retry loop awaited without asyncio.wait_for
NoDeadline(t) == TRUE

\* asyncio.wait_for(self._process_with_retries(...), timeout=self.timeout): the
\* retry loop runs only while less than self.timeout seconds have passed
BeforeDeadline(t) == t < timeout

\* what one call of agent.process() can end in: a result dict of status
\* success or error, or an exception: a transient failure (rate limit, network
\* fault), a ValueError, or a permanent failure of another class (a rejected
\* API key, a missing field)
ExecResults == {"success", "error", "TransientError", "ValueError", "PermanentError"}

\* the outcomes of agent.process() the orchestrator can tell apart: a permanent
\* failure is retried like a transient one and reaches the orchestrator as the
\* same AIGenerationError, so where callers run concurrently one exception
\* class stands for both
OrchestratorExecResults == ExecResults \ {"PermanentError"}

\* the payloads agent.process() can produce for one input
Payloads == {1, 2}

\* the observer's count after a request has reached process_with_timeout
\* (reached = 1) or has ended there in an error (errors = 1)
Observe(log, reached, errors) ==
    IF log.at = "on"
    THEN [log EXCEPT !.reached = @ + reached, !.errors = @ + errors]
    ELSE log

\* a hit that is counted as a request of the agent
ServeFromCacheCounted(c, cached_result) ==
    /\ task' = [task EXCEPT ![c] = Finished(cached_result)]
    /\ agent' = [agent EXCEPT ![c].request_count = @ + 1]
    /\ UNCHANGED <<validated, attempt, execCalls>>

\* cached_ai_request lines 289-295: return cached_result, the processor is not called
ServeFromCache(c, cached_result) ==
    /\ task' = [task EXCEPT ![c] = Finished(cached_result)]
    /\ UNCHANGED <<agent, validated, attempt, execCalls>>

\* cached_ai_request up to its first suspension inside the wrapper: cache
\* lookup; on a hit the task is finished; on a miss the processor creates the
\* agent (factory.get_agent), process_with_timeout counts the request,
\* validates and starts the first attempt under asyncio.wait_for
CachedAiRequest(c, store_ok) ==
    /\ task[c].at = "cache_get"
    /\ ~must_cancel[c]
    /\ LET cached_result == CacheGet(CallKey(c), store_ok) IN
       IF cached_result /= NoResult
       THEN ServeFromCache(c, cached_result)
       ELSE /\ validated' = [validated EXCEPT ![c] = TRUE]
            /\ IF MayExecute(call[c].input_data)
               THEN /\ agent' = [agent EXCEPT ![c] = [NoAgent EXCEPT !.request_count = 1]]
                    /\ task' = [task EXCEPT ![c] = [at |-> "executing"]]
                    /\ attempt' = [attempt EXCEPT ![c] = 0]
                    /\ execCalls' = [execCalls EXCEPT ![c] = 1]
               ELSE /\ agent' = [agent EXCEPT ![c] =
                                   CountError([NoAgent EXCEPT !.request_count = 1])]
                    /\ task' = [task EXCEPT ![c] = Failed("ValueError")]
                    /\ UNCHANGED <<attempt, execCalls>>
    /\ UNCHANGED <<pc, call, outcome, request_semaphore, active_requests, must_cancel,
                   elapsed, delays, last_exception, cache>>
    /\ UNCHANGED cancel_result
    /\ observed' = IF CacheGet(CallKey(c), store_ok) /= NoResult
                   THEN observed
                   ELSE Observe(observed, 1,
                                IF MayExecute(call[c].input_data) THEN 0 ELSE 1)
    /\ UNCHANGED <<battlecard, orchestration, key_request, health, construction, expert, roundtrip, rate_limit>>

\* the result dict agent.process() returns: a payload on success, an error
\* description otherwise
ResultOf(res, payload) == [status |-> res, data |-> IF res = "success" THEN payload ELSE 0]

\* a write-through of every result
ShouldCacheAlways(result) == TRUE

\* if result.get('status') == 'success': cache_service.set(...)
ShouldCache(result) == result.status = "success"

\* agent.process() returns or raises after d seconds, before the deadline of
\* asyncio.wait_for (at the deadline itself the timeout wins)
ExecReturn(c, d, res, payload) ==
    /\ task[c].at = "executing"
    /\ ~must_cancel[c]
    /\ BeforeDeadline(elapsed[c] + d)
    /\ elapsed' = [elapsed EXCEPT ![c] = @ + d]
    /\ CASE res \in {"success", "error"} ->
              \* process_with_timeout lines 68-80, then cached_ai_request line 300
              /\ agent' = [agent EXCEPT ![c].total_processing_time = @ + elapsed'[c]]
              /\ task' = [task EXCEPT ![c] =
                            IF ShouldCache(ResultOf(res, payload))
                            THEN [at |-> "cache_set", result |-> ResultOf(res, payload)]
                            ELSE Finished(ResultOf(res, payload))]
              /\ UNCHANGED <<delays, last_exception>>
         [] res \notin {"success", "error"} /\ Retryable(res) /\ MayRetry(attempt[c]) ->
              /\ delays' = [delays EXCEPT ![c] = Append(@, BackoffDelay(attempt[c]))]
              /\ task' = [task EXCEPT ![c] = [at |-> "sleeping"]]
              /\ last_exception' = [last_exception EXCEPT ![c] = RecordException(@, res)]
              /\ UNCHANGED <<agent>>
         [] OTHER ->
              \* raise (ValueError, TypeError) or, after the loop, raise
              \* last_exception (retries exhausted)
              /\ agent' = [agent EXCEPT ![c] = CountError(@)]
              /\ last_exception' = [last_exception EXCEPT ![c] = RecordException(@, res)]
              /\ task' = [task EXCEPT ![c] =
                            Failed(IF Retryable(res) THEN last_exception'[c] ELSE res)]
              /\ UNCHANGED <<delays>>
    /\ UNCHANGED <<pc, call, outcome, request_semaphore, active_requests, must_cancel,
                   attempt, execCalls, validated, cache>>
    /\ UNCHANGED cancel_result
    /\ observed' = IF \/ res \in {"success", "error"}
                      \/ Retryable(res) /\ MayRetry(attempt[c])
                   THEN observed
                   ELSE Observe(observed, 0, 1)
    /\ UNCHANGED <<battlecard, orchestration, key_request, health, construction, expert, roundtrip, rate_limit>>

\* asyncio.sleep(delay) returns: the next attempt of the for loop starts
SleepReturn(c) ==
    /\ task[c].at = "sleeping"
    /\ ~must_cancel[c]
    /\ BeforeDeadline(elapsed[c] + BackoffDelay(attempt[c]))
    /\ elapsed' = [elapsed EXCEPT ![c] = @ + BackoffDelay(attempt[c])]
    /\ attempt' = [attempt EXCEPT ![c] = @ + 1]
    /\ execCalls' = [execCalls EXCEPT ![c] = @ + 1]
    /\ task' = [task EXCEPT ![c] = [at |-> "executing"]]
    /\ UNCHANGED <<pc, call, outcome, request_semaphore, active_requests, must_cancel,
                   agent, delays, validated, last_exception, cache>>
    /\ UNCHANGED cancel_result
    /\ UNCHANGED <<battlecard, orchestration, key_request, health, construction, expert, roundtrip, observed, rate_limit>>

\* the deadline of asyncio.wait_for can pass while the attempt or the sleep lasts
DeadlineReachable(c, D) ==
    \/ task[c].at = "executing" /\ \E d \in D : elapsed[c] + d >= timeout
    \/ task[c].at = "sleeping" /\ elapsed[c] + BackoffDelay(attempt[c]) >= timeout

\* asyncio.wait_for times out: the retry loop is cancelled, lines 82-89
WaitForTimeout(c, D) ==
    /\ ~must_cancel[c]
    /\ DeadlineReachable(c, D)
    /\ elapsed' = [elapsed EXCEPT ![c] = timeout]
    /\ agent' = [agent EXCEPT ![c] = CountError(@)]
    /\ task' = [task EXCEPT ![c] = Failed("TimeoutError")]
    /\ UNCHANGED <<pc, call, outcome, request_semaphore, active_requests, must_cancel,
                   attempt, execCalls, delays, validated, last_exception, cache>>
    /\ UNCHANGED cancel_result
    /\ observed' = Observe(observed, 0, 1)
    /\ UNCHANGED <<battlecard, orchestration, key_request, health, construction, expert, roundtrip, rate_limit>>

\* cached_ai_request lines 300-303: write-through of a success, then return
CacheSet(c, store_ok) ==
    /\ task[c].at = "cache_set"
    /\ ~must_cancel[c]
    /\ cache' = IF store_ok
                THEN CacheSetEx(CallKey(c), task[c].result, call[c].options.cache_ttl)
                ELSE cache
    /\ task' = [task EXCEPT ![c] = Finished(task[c].result)]
    /\ UNCHANGED <<pc, call, outcome, request_semaphore, active_requests, must_cancel,
                   agent, attempt, elapsed, execCalls, delays, validated, last_exception>>
    /\ UNCHANGED cancel_result
    /\ UNCHANGED <<battlecard, orchestration, key_request, health, construction, expert, roundtrip, observed, rate_limit>>

\* ------------------------------------------------------------ cancellation
\* a cancel_request that reports True whatever the id
cancel_request_always(request_id) == TRUE

\* the return value of cancel_request: True for every id in the table; the
\* value Task.cancel() returns is not looked at
cancel_request(request_id) == request_id \in active_requests

\* AIOrchestrator.cancel_request: Task.cancel() of a tracked request; cancelling
\* a task that is already done changes nothing and still returns True
CancelRequest(request_id) ==
    /\ construction.at = "ready"
    /\ IF request_id \in active_requests
       THEN must_cancel' = [c \in Callers |->
                IF generate_request_id(c) = request_id /\ TaskPending(c)
                THEN TRUE ELSE must_cancel[c]]
       ELSE UNCHANGED must_cancel
    /\ cancel_result' = [c \in Callers |->
            IF generate_request_id(c) = request_id
            THEN cancel_request(request_id) ELSE cancel_result[c]]
    /\ UNCHANGED <<pc, call, outcome, request_semaphore, active_requests, task, agent,
                   attempt, elapsed, execCalls, delays, validated, last_exception, cache>>
    /\ UNCHANGED <<battlecard, orchestration, key_request, health, construction, expert, roundtrip, observed, rate_limit>>

\* the task's next step raises CancelledError at its suspension point; a setex
\* already handed to the executor thread may still be applied
DeliverCancel(c, written) ==
    /\ must_cancel[c]
    /\ TaskPending(c)
    /\ must_cancel' = [must_cancel EXCEPT ![c] = FALSE]
    /\ cache' = IF written /\ task[c].at = "cache_set"
                THEN CacheSetEx(CallKey(c), task[c].result, call[c].options.cache_ttl)
                ELSE cache
    /\ task' = [task EXCEPT ![c] = Cancelled]
    /\ UNCHANGED <<pc, call, outcome, request_semaphore, active_requests, agent,
                   attempt, elapsed, execCalls, delays, validated, last_exception>>
    /\ UNCHANGED cancel_result
    /\ UNCHANGED <<battlecard, orchestration, key_request, health, construction, expert, roundtrip, observed, rate_limit>>

\* Redis drops an entry: its TTL has elapsed, or it is evicted
CacheExpire(k) ==
    /\ cache[k].present
    /\ cache' = [cache EXCEPT ![k] = NoEntry]
    /\ UNCHANGED <<pc, call, outcome, request_semaphore, active_requests, task,
                   must_cancel, agent, attempt, elapsed, execCalls, delays, validated, last_exception>>
    /\ UNCHANGED cancel_result
    /\ UNCHANGED <<battlecard, orchestration, key_request, health, construction, expert, roundtrip, observed, rate_limit>>

\* AIOrchestrator.get_status, lines 214-222: the members that depend on the
\* orchestrator's state
get_status ==
    [active_requests |-> Cardinality(active_requests),
     max_concurrent |-> max_concurrent_requests]

\* ------------------------------------------------------------ specification
Next ==
    \/ \E c \in Callers, a \in AgentTypes, i \in Inputs, o \in OptionsSet :
          ProcessWithAgent(c, a, i, o)
    \/ \E c \in Callers : AcquireSlot(c)
    \/ \E c \in Callers, ok \in BOOLEAN : CachedAiRequest(c, ok)
    \/ \E c \in Callers, d \in HangDurations, res \in OrchestratorExecResults,
             p \in Payloads :
          ExecReturn(c, d, res, p)
    \/ \E c \in Callers : SleepReturn(c)
    \/ \E c \in Callers : WaitForTimeout(c, HangDurations)
    \/ \E c \in Callers, ok \in BOOLEAN : CacheSet(c, ok)
    \/ \E id \in Callers : CancelRequest(id)
    \/ \E c \in Callers, w \in BOOLEAN : DeliverCancel(c, w)
    \/ \E c \in Callers : AwaitTaskReturn(c)
    \/ \E k \in CacheKeys : CacheExpire(k)

Spec == Init /\ [][Next]_vars

\* One request at a time through the wrapper, with attempts that take time
One == {1}

NextWrapper ==
    \/ \E c \in One, a \in AgentTypes, i \in Inputs, o \in WrapperOptionsSet :
          ProcessWithAgent(c, a, i, o)
    \/ \E c \in One : AcquireSlot(c)
    \/ \E c \in One, ok \in BOOLEAN : CachedAiRequest(c, ok)
    \/ \E c \in One, d \in ExecDurations, res \in ExecResults, p \in Payloads :
          ExecReturn(c, d, res, p)
    \/ \E c \in One : SleepReturn(c)
    \/ \E c \in One : WaitForTimeout(c, ExecDurations)
    \/ \E c \in One, ok \in BOOLEAN : CacheSet(c, ok)
    \/ \E id \in One : CancelRequest(id)
    \/ \E c \in One, w \in BOOLEAN : DeliverCancel(c, w)
    \/ \E c \in One : AwaitTaskReturn(c)
    \/ \E k \in CacheKeys : CacheExpire(k)

SpecWrapper == Init /\ [][NextWrapper]_vars

\* ------------------------------------------- AIOrchestrator.generate_battlecard
\* The pipeline runs as caller 1: its two steps are process_with_agent calls.
PipelineSteps == <<"aggregator", "battlecard_generation">>

\* lines 140-146: competitor name and context
AggregationInput == InputX

\* lines 158-166: competitor_info and, as second field, aggregated_data
BattlecardInput(aggregated_data) ==
    [type |-> "dict",
     items |-> << <<1, << <<1, 7>> >> >>, <<2, << <<1, aggregated_data>> >> >> >>]

\* a process_with_agent call that gets past the argument checks
Accepted(agent_type, input_data) ==
    /\ TruthyStr(agent_type)
    /\ TruthyData(input_data)
    /\ agent_type \in list_available_agents

Ended(invoked, aggregation_result, battlecard_input, how) ==
    [at |-> "done", invoked |-> invoked, aggregation_result |-> aggregation_result,
     battlecard_input |-> battlecard_input, ended |-> how]

\* a pipeline that goes on whatever the step returned
StepSucceededAlways(result) == TRUE

\* if aggregation_result.get('status') != 'success': raise AIGenerationError
StepSucceeded(result) == result.status = "success"

\* generate_battlecard up to its first await: the aggregation step is called
GenerateBattlecard(options) ==
    /\ battlecard.at \in {"idle", "done"}
    /\ pc[1] = "idle"
    /\ CallProcessWithAgent(1, PipelineSteps[1], AggregationInput, options)
    /\ battlecard' =
          IF Accepted(PipelineSteps[1], AggregationInput)
          THEN [at |-> "aggregation", invoked |-> <<PipelineSteps[1]>>,
                aggregation_result |-> NoResult, battlecard_input |-> InputEmpty,
                ended |-> NoOutcome]
          ELSE Ended(<<PipelineSteps[1]>>, NoResult, InputEmpty, Raised("ValidationError"))

\* a step's process_with_agent call returns or raises. After the aggregation
\* step, lines 154-166: a result that is no success raises AIGenerationError,
\* an exception of the call passes through the except clause of line 205, a
\* success is put into the input of the next step. After the generation step,
\* lines 174-203.
StepReturns ==
    /\ battlecard.at \in {"aggregation", "generation"}
    /\ ResumeFromTask(1)
    /\ LET t == task[1] IN
       battlecard' =
          IF battlecard.at = "aggregation"
          THEN IF t.at = "finished" /\ StepSucceeded(t.result)
               THEN [battlecard EXCEPT !.at = "call_generation",
                                       !.aggregation_result = t.result,
                                       !.battlecard_input = BattlecardInput(t.result.data)]
               ELSE IF t.at = "finished"
               THEN Ended(battlecard.invoked, t.result, InputEmpty,
                          Raised("AIGenerationError"))
               ELSE Ended(battlecard.invoked, NoResult, InputEmpty, OutcomeOf(t))
          ELSE IF t.at = "finished" /\ StepSucceeded(t.result)
               THEN Ended(battlecard.invoked, battlecard.aggregation_result,
                          battlecard.battlecard_input, Returned("success"))
               ELSE IF t.at = "finished"
               THEN Ended(battlecard.invoked, battlecard.aggregation_result,
                          battlecard.battlecard_input, Raised("AIGenerationError"))
               ELSE Ended(battlecard.invoked, battlecard.aggregation_result,
                          battlecard.battlecard_input, OutcomeOf(t))

\* lines 168-172: the generation step is called with the input built from the
\* aggregation result (the same event-loop step as the return above; nothing
\* the pipeline reads changes in between)
CallGeneration(options) ==
    /\ battlecard.at = "call_generation"
    /\ pc[1] = "idle"
    /\ CallProcessWithAgent(1, PipelineSteps[2], battlecard.battlecard_input, options)
    /\ battlecard' =
          IF Accepted(PipelineSteps[2], battlecard.battlecard_input)
          THEN [battlecard EXCEPT !.at = "generation",
                                  !.invoked = Append(@, PipelineSteps[2])]
          ELSE Ended(Append(battlecard.invoked, PipelineSteps[2]),
                     battlecard.aggregation_result, battlecard.battlecard_input,
                     Raised("ValidationError"))

NextBattlecard ==
    \/ \E o \in OptionsSet : GenerateBattlecard(o)
    \/ StepReturns
    \/ \E o \in OptionsSet : CallGeneration(o)
    \/ \E c \in One : AcquireSlot(c)
    \/ \E c \in One, ok \in BOOLEAN : CachedAiRequest(c, ok)
    \/ \E c \in One, d \in HangDurations, res \in OrchestratorExecResults,
             p \in Payloads :
          ExecReturn(c, d, res, p)
    \/ \E c \in One : SleepReturn(c)
    \/ \E c \in One : WaitForTimeout(c, HangDurations)
    \/ \E c \in One, ok \in BOOLEAN : CacheSet(c, ok)
    \/ \E id \in One : CancelRequest(id)
    \/ \E c \in One, w \in BOOLEAN : DeliverCancel(c, w)
    \/ \E k \in CacheKeys : CacheExpire(k)

SpecBattlecard == Init /\ [][NextBattlecard]_vars

\* ------------------------------------------------- OrchestrationAgent.process
\* input_data of the orchestration: the keys it has, whether search_terms is a
\* non-empty list and whether payer_identifier is set
CompetitorInput ==
    [keys |-> {"competitor_name", "search_terms"}, search_terms |-> TRUE,
     payer_identifier |-> FALSE]
CompetitorNoTermsInput ==
    [keys |-> {"competitor_name", "search_terms"}, search_terms |-> FALSE,
     payer_identifier |-> FALSE]
PayerInput ==
    [keys |-> {"customer_profile", "payer_identifier", "data_types_to_fetch"},
     search_terms |-> FALSE, payer_identifier |-> TRUE]
PayerWithTermsInput ==
    [keys |-> {"customer_profile", "payer_identifier", "data_types_to_fetch",
               "search_terms"},
     search_terms |-> TRUE, payer_identifier |-> TRUE]
IncompleteInput ==
    [keys |-> {"competitor_name"}, search_terms |-> FALSE, payer_identifier |-> FALSE]
OrchestrationInputs ==
    {CompetitorInput, CompetitorNoTermsInput, PayerInput, PayerWithTermsInput,
     IncompleteInput}

\* OrchestrationAgent.validate_input (customer_profile is a dict with a name)
validate_orchestration_input(input_data) ==
    \/ {"competitor_name", "search_terms"} \subseteq input_data.keys
    \/ {"customer_profile", "payer_identifier", "data_types_to_fetch"}
           \subseteq input_data.keys

\* what a sub-agent's process() ends in: a result of status success or error,
\* or an exception
StepResults == {"success", "error", "raise"}

\* the order in which process() runs its steps and appends them to
\* metadata.steps_completed
StepOrder(input_data) ==
    IF "customer_profile" \in input_data.keys
    THEN <<"data_collection", "data_cleaning", "summarization", "product_analysis",
           "payer_insights_generation">>
    ELSE <<"data_collection", "data_cleaning", "summarization", "product_analysis",
           "generic_insights_generation", "battlecard_generation">>

\* _generate_final_battlecard_or_report: its parameters, and the names its
\* body reads when it builds battlecard_input (lines 272-297)
FinalStepParameters ==
    {"self", "input_data", "product_analysis_data", "all_insights_data"}
FinalStepNamesRead == {"competitor_info", "product_analysis", "insights", "market_data"}
UnboundNames == FinalStepNamesRead \ FinalStepParameters

NoData == [collected |-> "none", cleaned |-> "none", summaries |-> "none",
           analysis |-> "none", insights |-> "none"]

NoOrchestrationResult == [status |-> None, error |-> FALSE]

\* process() lines 322-343: validation, metadata with an empty steps_completed
OrchestrationProcess(input_data) ==
    /\ orchestration.at \in {"idle", "done"}
    /\ orchestration' =
          [at |-> IF validate_orchestration_input(input_data)
                  THEN "data_collection" ELSE "done",
           input_data |-> input_data,
           steps_completed |-> << >>,
           failed |-> << >>,
           data |-> NoData,
           result |-> IF validate_orchestration_input(input_data)
                      THEN NoOrchestrationResult
                      ELSE [status |-> "error", error |-> TRUE]]
    /\ UNCHANGED <<orchestratorVars, battlecard, key_request, health, construction, expert, roundtrip, observed, rate_limit>>

\* the step has returned into process(): it is appended to steps_completed
StepCompleted(o, step, next) ==
    [o EXCEPT !.at = next, !.steps_completed = Append(@, step)]

\* the except clause of process(), lines 407-416
OrchestrationError(o, step) ==
    [o EXCEPT !.at = "done", !.failed = Append(@, step),
              !.result = [status |-> "error", error |-> TRUE]]

\* a step whose sub-agent failed and whose failure is only logged
Swallowed(o, step) == [o EXCEPT !.failed = Append(@, step)]

\* _collect_data_for_orchestration, lines 93-116: without search terms and
\* payer identifier the empty structure is returned; an error result gives the
\* empty structure too; an exception is raised on into process()
CollectData(res) ==
    /\ orchestration.at = "data_collection"
    /\ LET o == orchestration
           called == o.input_data.search_terms \/ o.input_data.payer_identifier
       IN orchestration' =
            IF ~called
            THEN StepCompleted([o EXCEPT !.data.collected = "empty"],
                               "data_collection", "data_cleaning")
            ELSE IF res = "success"
            THEN StepCompleted([o EXCEPT !.data.collected = "real"],
                               "data_collection", "data_cleaning")
            ELSE IF res = "error"
            THEN StepCompleted(Swallowed([o EXCEPT !.data.collected = "empty"],
                                         "data_collection"),
                               "data_collection", "data_cleaning")
            ELSE OrchestrationError(o, "data_collection")
    /\ UNCHANGED <<orchestratorVars, battlecard, key_request, health, construction, expert, roundtrip, observed, rate_limit>>

\* _clean_collected_data, lines 129-151: an error result or an exception of
\* the cleaning agent falls back to the uncleaned data
CleanData(res) ==
    /\ orchestration.at = "data_cleaning"
    /\ LET o == orchestration IN
       orchestration' =
            IF o.data.collected /= "real"
            THEN StepCompleted([o EXCEPT !.data.cleaned = "empty"],
                               "data_cleaning", "summarization")
            ELSE IF res = "success"
            THEN StepCompleted([o EXCEPT !.data.cleaned = "cleaned"],
                               "data_cleaning", "summarization")
            ELSE StepCompleted(Swallowed([o EXCEPT !.data.cleaned = "uncleaned"],
                                         "data_cleaning"),
                               "data_cleaning", "summarization")
    /\ UNCHANGED <<orchestratorVars, battlecard, key_request, health, construction, expert, roundtrip, observed, rate_limit>>

\* _summarize_cleaned_data, lines 163-183: a failure leaves the summaries empty
Summarize(res) ==
    /\ orchestration.at = "summarization"
    /\ LET o == orchestration IN
       orchestration' =
            IF o.data.cleaned = "empty"
            THEN StepCompleted([o EXCEPT !.data.summaries = "empty"],
                               "summarization", "product_analysis")
            ELSE IF res = "success"
            THEN StepCompleted([o EXCEPT !.data.summaries = "real"],
                               "summarization", "product_analysis")
            ELSE StepCompleted(Swallowed([o EXCEPT !.data.summaries = "empty"],
                                         "summarization"),
                               "summarization", "product_analysis")
    /\ UNCHANGED <<orchestratorVars, battlecard, key_request, health, construction, expert, roundtrip, observed, rate_limit>>

\* _analyze_products_and_market, lines 197-213: a failure leaves the analysis {}
AnalyzeProducts(res) ==
    /\ orchestration.at = "product_analysis"
    /\ LET o == orchestration IN
       orchestration' =
            IF res = "success"
            THEN StepCompleted([o EXCEPT !.data.analysis = "real"],
                               "product_analysis", "insights_generation")
            ELSE StepCompleted(Swallowed([o EXCEPT !.data.analysis = "empty"],
                                         "product_analysis"),
                               "product_analysis", "insights_generation")
    /\ UNCHANGED <<orchestratorVars, battlecard, key_request, health, construction, expert, roundtrip, observed, rate_limit>>

\* process() lines 365-384 with _generate_payer_specific_insights and
\* _generate_generic_insights: a failure leaves the insights {}; the payer
\* path then returns status success (lines 396-406)
GenerateInsights(res) ==
    /\ orchestration.at = "insights_generation"
    /\ LET o == orchestration
           step == StepOrder(o.input_data)[5]
           next == IF "customer_profile" \in o.input_data.keys
                   THEN "done" ELSE "battlecard_generation"
           after(x) == IF next = "done"
                       THEN [x EXCEPT !.result = [status |-> "success", error |-> FALSE]]
                       ELSE x
       IN orchestration' =
            IF res = "success"
            THEN after(StepCompleted([o EXCEPT !.data.insights = "real"], step, next))
            ELSE after(StepCompleted(Swallowed([o EXCEPT !.data.insights = "empty"], step),
                                     step, next))
    /\ UNCHANGED <<orchestratorVars, battlecard, key_request, health, construction, expert, roundtrip, observed, rate_limit>>

\* _generate_final_battlecard_or_report, lines 292-310, and process() lines
\* 393-416: building battlecard_input reads names the function does not bind,
\* which raises NameError; otherwise a result that is no success raises
GenerateFinalBattlecard(res) ==
    /\ orchestration.at = "battlecard_generation"
    /\ LET o == orchestration IN
       orchestration' =
            IF UnboundNames /= {} \/ res /= "success"
            THEN OrchestrationError(o, "battlecard_generation")
            ELSE [StepCompleted(o, "battlecard_generation", "done")
                     EXCEPT !.result = [status |-> "success", error |-> FALSE]]
    /\ UNCHANGED <<orchestratorVars, battlecard, key_request, health, construction, expert, roundtrip, observed, rate_limit>>

NextOrchestration ==
    \/ \E i \in OrchestrationInputs : OrchestrationProcess(i)
    \/ \E res \in StepResults : CollectData(res)
    \/ \E res \in StepResults : CleanData(res)
    \/ \E res \in StepResults : Summarize(res)
    \/ \E res \in StepResults : AnalyzeProducts(res)
    \/ \E res \in StepResults : GenerateInsights(res)
    \/ \E res \in StepResults : GenerateFinalBattlecard(res)

SpecOrchestration == Init /\ [][NextOrchestration]_vars

\* ------------------------------------------------------ cache key derivation
\* The requests whose key is derived: dicts of two fields, each holding a dict
\* of two fields, in every insertion order and with every choice of values.
FieldNames == {1, 2}
FieldOrders == {<<1, 2>>, <<2, 1>>}
FieldValues == 1..NumValues

InnerDicts ==
    {[i \in 1..2 |-> <<o[i], f[o[i]]>>] : o \in FieldOrders, f \in [FieldNames -> FieldValues]}

KeyInputs ==
    {[type |-> "dict", items |-> [i \in 1..2 |-> <<o[i], g[o[i]]>>]] :
        o \in FieldOrders, g \in [FieldNames -> InnerDicts]}

\* agent types added with AIAgentFactory.register_agent, which takes any name
RegisteredAgents == {"analysis", "analysis:v2"}

\* two of the built-in agent types and the registered ones; the values of
\* options['model_preference'], which no code restricts
KeyAgentTypes == {"aggregator", "content_analysis"} \cup RegisteredAgents
KeyModels == {DefaultModel, "gpt-4", "v2:gpt-4"}

KeyRequests ==
    {[at |-> "args", agent_type |-> a, model |-> m, input_data |-> i] :
        a \in KeyAgentTypes, m \in KeyModels, i \in KeyInputs}

InitKeys ==
    /\ OrchestratorInit
    /\ construction = Constructed
    /\ expert = NoExpert
    /\ roundtrip = NoRoundTrip
    /\ observed = NotObserved
    /\ rate_limit = NoRateLimit
    /\ battlecard = NoBattlecard
    /\ orchestration = NoOrchestration
    /\ key_request \in KeyRequests
    /\ health = NoHealth

\* cached_ai_request line 285 and CacheService.get line 90: the key under
\* which the request's result is looked up and stored
DeriveCacheKey ==
    /\ key_request.at = "args"
    /\ key_request' = [at |-> "done",
                       agent_type |-> key_request.agent_type,
                       model |-> key_request.model,
                       input_data |-> key_request.input_data,
                       key |-> RequestKey(key_request.agent_type,
                                          key_request.input_data,
                                          key_request.model)]
    /\ UNCHANGED <<orchestratorVars, battlecard, orchestration, health, construction, expert, roundtrip, observed, rate_limit>>

NextKeys == DeriveCacheKey

SpecKeys == InitKeys /\ [][NextKeys]_vars

\* ------------------------------------------------------------ health status
\* counters on both sides of the 10% threshold after a thousand requests
BoundaryCounters ==
    {[at |-> "counted", request_count |-> 1000, error_count |-> e] : e \in {99, 100, 101}}

\* the counters an agent can have after up to MaxRequests requests, and the
\* counters at the threshold
HealthCounters ==
    {h \in {[at |-> "counted", request_count |-> r, error_count |-> e] :
                r \in 0..MaxRequests, e \in 0..MaxRequests} :
        h.error_count <= h.request_count}
    \cup BoundaryCounters

\* a threshold test that includes the threshold itself
ErrorRateAtLeast(r, e, num, den) == r > 0 /\ e * den >= r * num

\* error_rate > num/den, where error_rate = e / r if r > 0 else 0; for
\* counters below 2^53 the float quotient compares with 0.1 and 0.5 as the
\* exact quotient does
ErrorRateAbove(r, e, num, den) == r > 0 /\ e * den > r * num

\* BaseAgent.get_health_status
get_health_status(r, e) ==
    LET degraded == IF ErrorRateAbove(r, e, 1, 10) THEN "degraded" ELSE "healthy"
        status == IF ErrorRateAbove(r, e, 1, 2) THEN "unhealthy" ELSE degraded
    IN [status |-> status, total_requests |-> r, total_errors |-> e]

InitHealth ==
    /\ OrchestratorInit
    /\ construction = Constructed
    /\ expert = NoExpert
    /\ roundtrip = NoRoundTrip
    /\ observed = NotObserved
    /\ rate_limit = NoRateLimit
    /\ battlecard = NoBattlecard
    /\ orchestration = NoOrchestration
    /\ key_request = NoKeyRequest
    /\ health \in HealthCounters

GetHealthStatus ==
    /\ health.at = "counted"
    /\ health' = [at |-> "reported",
                  request_count |-> health.request_count,
                  error_count |-> health.error_count,
                  report |-> get_health_status(health.request_count, health.error_count)]
    /\ UNCHANGED <<orchestratorVars, battlecard, orchestration, key_request, construction, expert, roundtrip, observed, rate_limit>>

NextHealth == GetHealthStatus

SpecHealth == InitHealth /\ [][NextHealth]_vars

\* ------------------------------------------------ AIOrchestrator.__init__
\* the values settings.MAX_CONCURRENT_AI_REQUESTS can be configured to
ConfiguredValues == (-1)..MaxConcurrent

\* asyncio.Semaphore(value) raises ValueError for a negative value and accepts
\* every other one, zero included
SemaphoreRejects(value) == value < 0

InitConfig ==
    /\ NoRequests
    /\ request_semaphore = 0
    /\ construction \in {[MAX_CONCURRENT_AI_REQUESTS |-> n, at |-> "unconstructed"] :
                            n \in ConfiguredValues}
    /\ battlecard = NoBattlecard
    /\ orchestration = NoOrchestration
    /\ key_request = NoKeyRequest
    /\ health = NoHealth
    /\ expert = NoExpert
    /\ roundtrip = NoRoundTrip
    /\ observed = NotObserved
    /\ rate_limit = NoRateLimit

\* AIOrchestrator(): reads the setting and creates the semaphore; there is no
\* other check of the value
Construct ==
    /\ construction.at = "unconstructed"
    /\ IF SemaphoreRejects(construction.MAX_CONCURRENT_AI_REQUESTS)
       THEN /\ construction' = [construction EXCEPT !.at = "aborted"]
            /\ UNCHANGED request_semaphore
       ELSE /\ construction' = [construction EXCEPT !.at = "ready"]
            /\ request_semaphore' = construction.MAX_CONCURRENT_AI_REQUESTS
    /\ UNCHANGED <<pc, call, outcome, active_requests, task, must_cancel, agent,
                   attempt, elapsed, execCalls, delays, validated, last_exception, cache>>
    /\ UNCHANGED cancel_result
    /\ UNCHANGED <<battlecard, orchestration, key_request, health, expert, roundtrip, observed, rate_limit>>

\* the construction, then the requests made of the orchestrator
NextConfig ==
    \/ Construct
    \/ \E c \in One, a \in AgentTypes, i \in Inputs, o \in OptionsSet :
          ProcessWithAgent(c, a, i, o)
    \/ \E c \in One : AcquireSlot(c)
    \/ \E c \in One, ok \in BOOLEAN : CachedAiRequest(c, ok)
    \/ \E c \in One, d \in HangDurations, res \in OrchestratorExecResults,
             p \in Payloads :
          ExecReturn(c, d, res, p)
    \/ \E c \in One : SleepReturn(c)
    \/ \E c \in One : WaitForTimeout(c, HangDurations)
    \/ \E c \in One, ok \in BOOLEAN : CacheSet(c, ok)
    \/ \E id \in One : CancelRequest(id)
    \/ \E c \in One, w \in BOOLEAN : DeliverCancel(c, w)
    \/ \E c \in One : AwaitTaskReturn(c)
    \/ \E k \in CacheKeys : CacheExpire(k)

SpecConfig == InitConfig /\ [][NextConfig]_vars

\* ------------------------------------------- concurrent calls that succeed
\* Every caller makes one process_with_agent call with a valid input, and
\* agent.process() always returns a success result before the deadline; nobody
\* cancels.
FirstCall(c) ==
    /\ outcome[c] = NoOutcome
    /\ \E o \in OptionsSet : ProcessWithAgent(c, "aggregator", InputX, o)

NextSucceeding ==
    \/ \E c \in Callers : FirstCall(c)
    \/ \E c \in Callers : AcquireSlot(c)
    \/ \E c \in Callers, ok \in BOOLEAN : CachedAiRequest(c, ok)
    \/ \E c \in Callers, d \in ExecDurations, p \in Payloads :
          ExecReturn(c, d, "success", p)
    \/ \E c \in Callers, ok \in BOOLEAN : CacheSet(c, ok)
    \/ \E c \in Callers : AwaitTaskReturn(c)
    \/ \E k \in CacheKeys : CacheExpire(k)

\* the event loop runs every coroutine that is ready: a caller whose semaphore
\* has a free slot, a task whose awaited call has answered, a caller whose
\* task is done
EventLoopFairness ==
    \A c \in Callers :
        /\ WF_vars(AcquireSlot(c))
        /\ WF_vars(\E ok \in BOOLEAN : CachedAiRequest(c, ok))
        /\ WF_vars(\E d \in ExecDurations, p \in Payloads : ExecReturn(c, d, "success", p))
        /\ WF_vars(\E ok \in BOOLEAN : CacheSet(c, ok))
        /\ WF_vars(AwaitTaskReturn(c))

SpecSucceeding == Init /\ [][NextSucceeding]_vars /\ EventLoopFairness

\* ------------------------------------------------------ ExpertSystemAgent
\* The in-process cache of ExpertSystemAgent: a dict, here the sequence of its
\* entries in insertion order; times are whole seconds.
cache_max_size == CacheMaxSize
ExpertKeys == 1..NumExpertKeys

\* how far the clock moves between two operations: a second, one TTL, one day
ClockSteps == {1, cache_ttl, SecondsPerDay}

KeysOf(entries) == {entries[i].key : i \in DOMAIN entries}
IndexOf(entries, key) == CHOOSE i \in DOMAIN entries : entries[i].key = key

\* timedelta.seconds of a non-negative interval: the seconds within the last
\* day, the days are a separate attribute
timedelta_seconds(delta) == delta % SecondsPerDay

Miss == [found |-> FALSE, result |-> [status |-> None, computed_at |-> 0]]

\* ExpertSystemAgent._get_cache_entry
get_cache_entry(entries, key, now) ==
    IF entries = << >> \/ key \notin KeysOf(entries) THEN Miss
    ELSE LET entry == entries[IndexOf(entries, key)]
             age == timedelta_seconds(now - entry.timestamp)
         IN IF age >= cache_ttl THEN Miss
            ELSE [found |-> TRUE, result |-> entry.result]

\* min(self.cache.keys(), key=timestamp): the first key, in dict order, of
\* minimal timestamp
Oldest(entries) ==
    CHOOSE i \in DOMAIN entries :
        /\ \A j \in DOMAIN entries : entries[i].timestamp <= entries[j].timestamp
        /\ \A j \in 1..(i - 1) : entries[j].timestamp > entries[i].timestamp

\* del self.cache[k]
Remove(entries, i) == SubSeq(entries, 1, i - 1) \o SubSeq(entries, i + 1, Len(entries))

\* a size test that lets one entry too many in
CacheFullOffByOne(n) == n > cache_max_size

\* if len(self.cache) >= self.cache_max_size
CacheFull(n) == n >= cache_max_size

\* ExpertSystemAgent._update_cache: evict the oldest entry of a full cache,
\* then self.cache[key] = {...}: an existing key keeps its place in the dict,
\* a new one goes to the end
update_cache(entries, key, result, now) ==
    LET kept == IF CacheFull(Len(entries)) THEN Remove(entries, Oldest(entries))
                ELSE entries
        entry == [key |-> key, result |-> result, timestamp |-> now]
    IN IF key \in KeysOf(kept)
       THEN [kept EXCEPT ![IndexOf(kept, key)] = entry]
       ELSE Append(kept, entry)

\* the result process() computes: its metadata carry the time of computation
Computed(now) == [status |-> "success", computed_at |-> now]

\* datetime.now() moves on
Tick(d) ==
    /\ expert.ticks < MaxTicks
    /\ expert' = [expert EXCEPT !.now = @ + d, !.ticks = @ + 1, !.last = [op |-> "tick"]]
    /\ UNCHANGED <<orchestratorVars, battlecard, orchestration, key_request, health,
                   construction, roundtrip, observed, rate_limit>>

\* a direct call of _update_cache(key, result)
UpdateCache(key) ==
    /\ expert' = [expert EXCEPT
                    !.cache = update_cache(@, key, Computed(expert.now), expert.now),
                    !.last = [op |-> "update", key |-> key]]
    /\ UNCHANGED <<orchestratorVars, battlecard, orchestration, key_request, health,
                   construction, roundtrip, observed, rate_limit>>

\* ExpertSystemAgent.process with a valid input of cache key 'key': a valid
\* entry is returned, otherwise the result is computed and cached
ExpertProcess(key) ==
    /\ LET entry == get_cache_entry(expert.cache, key, expert.now) IN
       IF entry.found
       THEN expert' = [expert EXCEPT
                         !.last = [op |-> "process", key |-> key, hit |-> TRUE,
                                   result |-> entry.result]]
       ELSE expert' = [expert EXCEPT
                         !.cache = update_cache(@, key, Computed(expert.now), expert.now),
                         !.last = [op |-> "process", key |-> key, hit |-> FALSE,
                                   result |-> Computed(expert.now)]]
    /\ UNCHANGED <<orchestratorVars, battlecard, orchestration, key_request, health,
                   construction, roundtrip, observed, rate_limit>>

NextExpert ==
    \/ \E d \in ClockSteps : Tick(d)
    \/ \E key \in ExpertKeys : UpdateCache(key)
    \/ \E key \in ExpertKeys : ExpertProcess(key)

SpecExpert == Init /\ [][NextExpert]_vars

\* ------------------------------------------- CacheService: set and get
\* Python values as trees: a str or an int (v is a code of the text, or the
\* number), a datetime, a list or a tuple of values, a dict as the sequence of
\* its <<key, value>> pairs.
PyStr(code) == [t |-> "str", v |-> code]
PyInt(n) == [t |-> "int", v |-> n]
PyDatetime == [t |-> "datetime", v |-> 0]
PyList(items) == [t |-> "list", v |-> items]
PyTuple(items) == [t |-> "tuple", v |-> items]
PyDict(items) == [t |-> "dict", v |-> items]

PyScalars == {PyStr(1), PyDatetime} \cup {PyInt(n) : n \in 1..NumValues}
PyItems == {<< >>} \cup {<<a>> : a \in PyScalars} \cup {<<a, b>> : a \in PyScalars, b \in {PyStr(1), PyInt(1)}}
PyMembers == PyScalars \cup {PyList(<<a>>) : a \in PyScalars} \cup {PyTuple(<<a>>) : a \in PyScalars}

\* the values handed to set: scalars, lists, tuples, and dicts of one member
\* under a str key or an int key
PyValues ==
    PyScalars
    \cup {PyList(i) : i \in PyItems}
    \cup {PyTuple(i) : i \in PyItems}
    \cup {PyDict(<< <<k, m>> >>) : k \in {PyStr(1), PyInt(1)}, m \in PyMembers}

\* str(n) of an int used as a dict key: a text no other key of the model has
DecimalText(n) == 100 + n

\* json.dumps raises TypeError for a value that holds a datetime
RECURSIVE JsonSerializable(_)
JsonSerializable(value) ==
    CASE value.t \in {"str", "int"} -> TRUE
      [] value.t = "datetime" -> FALSE
      [] value.t \in {"list", "tuple"} ->
            \A i \in DOMAIN value.v : JsonSerializable(value.v[i])
      [] value.t = "dict" ->
            \A i \in DOMAIN value.v : JsonSerializable(value.v[i][2])

\* json.dumps of a serializable value, as the JSON value it writes: a list and
\* a tuple both become an array, the keys of an object are strings
RECURSIVE json_dumps(_)
json_dumps(value) ==
    CASE value.t = "str" -> [t |-> "string", v |-> value.v]
      [] value.t = "int" -> [t |-> "number", v |-> value.v]
      [] value.t \in {"list", "tuple"} ->
            [t |-> "array", v |-> [i \in DOMAIN value.v |-> json_dumps(value.v[i])]]
      [] value.t = "dict" ->
            [t |-> "object",
             v |-> [i \in DOMAIN value.v |->
                      <<IF value.v[i][1].t = "int" THEN DecimalText(value.v[i][1].v)
                        ELSE value.v[i][1].v,
                        json_dumps(value.v[i][2])>>]]

\* a parser that gives tuples for arrays
RECURSIVE json_loads_tuples(_)
json_loads_tuples(doc) ==
    CASE doc.t = "string" -> PyStr(doc.v)
      [] doc.t = "number" -> PyInt(doc.v)
      [] doc.t = "array" -> PyTuple([i \in DOMAIN doc.v |-> json_loads_tuples(doc.v[i])])
      [] doc.t = "object" ->
            PyDict([i \in DOMAIN doc.v |->
                      <<PyStr(doc.v[i][1]), json_loads_tuples(doc.v[i][2])>>])

\* json.loads: an array becomes a list, an object a dict with str keys
RECURSIVE json_loads(_)
json_loads(doc) ==
    CASE doc.t = "string" -> PyStr(doc.v)
      [] doc.t = "number" -> PyInt(doc.v)
      [] doc.t = "array" -> PyList([i \in DOMAIN doc.v |-> json_loads(doc.v[i])])
      [] doc.t = "object" ->
            PyDict([i \in DOMAIN doc.v |->
                      <<PyStr(doc.v[i][1]), json_loads(doc.v[i][2])>>])

\* str(value) of a value json.dumps rejects: some text, here of code 0
StrOf(value) == PyStr(0)

\* CacheService._serialize_value for any value: the JSON document with the
\* members 'data' and 'type' ('cached_at' is never read); a value json.dumps
\* rejects is stored as its str()
SerializeAny(value) ==
    IF JsonSerializable(value)
    THEN [data |-> json_dumps(value), type |-> value.t]
    ELSE [data |-> json_dumps(StrOf(value)), type |-> "string"]

\* CacheService._deserialize_value: json.loads(serialized).get('data')
DeserializeAny(serialized) == json_loads(serialized.data)

InitRoundTrip ==
    /\ OrchestratorInit
    /\ construction = Constructed
    /\ expert = NoExpert
    /\ battlecard = NoBattlecard
    /\ orchestration = NoOrchestration
    /\ key_request = NoKeyRequest
    /\ health = NoHealth
    /\ roundtrip \in {[at |-> "value", value |-> v] : v \in PyValues}
    /\ observed = NotObserved
    /\ rate_limit = NoRateLimit

\* CacheService.set(namespace, key, value, ttl): False without a client or on
\* a Redis error, otherwise the document is stored and True returned
SetValue(store_ok) ==
    /\ roundtrip.at = "value"
    /\ roundtrip' =
          IF store_ok
          THEN [at |-> "set", value |-> roundtrip.value, returned |-> TRUE,
                stored |-> <<SerializeAny(roundtrip.value)>>]
          ELSE [at |-> "set", value |-> roundtrip.value, returned |-> FALSE,
                stored |-> << >>]
    /\ UNCHANGED <<orchestratorVars, battlecard, orchestration, key_request, health,
                   construction, expert, observed, rate_limit>>

\* CacheService.get(namespace, key) before the entry expires
GetValue ==
    /\ roundtrip.at = "set"
    /\ roundtrip' =
          [at |-> "got", value |-> roundtrip.value, returned |-> roundtrip.returned,
           stored |-> roundtrip.stored,
           hit |-> roundtrip.stored /= << >>,
           got |-> IF roundtrip.stored /= << >>
                   THEN DeserializeAny(roundtrip.stored[1]) ELSE PyStr(0)]
    /\ UNCHANGED <<orchestratorVars, battlecard, orchestration, key_request, health,
                   construction, expert, observed, rate_limit>>

NextRoundTrip ==
    \/ \E ok \in BOOLEAN : SetValue(ok)
    \/ GetValue

SpecRoundTrip == InitRoundTrip /\ [][NextRoundTrip]_vars

\* ------------------------------------------------ HealthStats over many requests
\* An observer counts the requests for agent type "aggregator" that reach
\* process_with_timeout and those that end there in an error, and the
\* orchestrator serves up to MaxObserved such requests.
InitObserved ==
    /\ OrchestratorInit
    /\ construction = Constructed
    /\ expert = NoExpert
    /\ roundtrip = NoRoundTrip
    /\ observed = [at |-> "on", reached |-> 0, errors |-> 0]
    /\ rate_limit = NoRateLimit
    /\ battlecard = NoBattlecard
    /\ orchestration = NoOrchestration
    /\ key_request = NoKeyRequest
    /\ health = NoHealth

ObservedInputs == {InputX, InputList}

ObservedCall(c) ==
    /\ observed.reached < MaxObserved
    /\ \E i \in ObservedInputs, o \in OptionsSet : ProcessWithAgent(c, "aggregator", i, o)

NextObserved ==
    \/ \E c \in Callers : ObservedCall(c)
    \/ \E c \in Callers : AcquireSlot(c)
    \/ \E c \in Callers, ok \in BOOLEAN : CachedAiRequest(c, ok)
    \/ \E c \in Callers, d \in HangDurations, res \in OrchestratorExecResults,
             p \in Payloads :
          ExecReturn(c, d, res, p)
    \/ \E c \in Callers : SleepReturn(c)
    \/ \E c \in Callers : WaitForTimeout(c, HangDurations)
    \/ \E c \in Callers, ok \in BOOLEAN : CacheSet(c, ok)
    \/ \E c \in Callers : AwaitTaskReturn(c)

SpecObserved == InitObserved /\ [][NextObserved]_vars

\* ------------------------------------------------ concurrent misses of one key
\* The orchestrator is configured with a slot for every caller
\* (MAX_CONCURRENT_AI_REQUESTS = NumCallers), so the callers' tasks run
\* concurrently; all of them ask for the same agent type and input.
InitConcurrent ==
    /\ NoRequests
    /\ request_semaphore = NumCallers
    /\ construction = [MAX_CONCURRENT_AI_REQUESTS |-> NumCallers, at |-> "ready"]
    /\ expert = NoExpert
    /\ roundtrip = NoRoundTrip
    /\ observed = NotObserved
    /\ rate_limit = NoRateLimit
    /\ battlecard = NoBattlecard
    /\ orchestration = NoOrchestration
    /\ key_request = NoKeyRequest
    /\ health = NoHealth

NextConcurrent ==
    \/ \E c \in Callers, o \in OptionsSet : ProcessWithAgent(c, "aggregator", InputX, o)
    \/ \E c \in Callers : AcquireSlot(c)
    \/ \E c \in Callers, ok \in BOOLEAN : CachedAiRequest(c, ok)
    \/ \E c \in Callers, res \in {"success", "error"}, p \in Payloads :
          ExecReturn(c, 0, res, p)
    \/ \E c \in Callers, ok \in BOOLEAN : CacheSet(c, ok)
    \/ \E c \in Callers : AwaitTaskReturn(c)
    \/ \E k \in CacheKeys : CacheExpire(k)

SpecConcurrent == InitConcurrent /\ [][NextConcurrent]_vars

\* ------------------------------------------------------ RateLimitMiddleware
\* RateLimitMiddleware(app, requests_per_minute)
requests_per_minute == RequestsPerMinute

\* cutoff_time = current_time - 60
RateWindow == 60

\* how far time.time() moves between two requests: half a window or a whole one
RateClockSteps == {30, RateWindow}

\* a cleaning that keeps a time stamp of exactly the cutoff
YoungerOrEqual(req_time, cutoff_time) == req_time >= cutoff_time

\* if req_time > cutoff_time
Younger(req_time, cutoff_time) == req_time > cutoff_time

\* the list comprehension of lines 146-149
CleanOld(times, cutoff_time) == SelectSeq(times, LAMBDA t : Younger(t, cutoff_time))

\* time passes between two requests
RateClockAdvance(d) ==
    /\ rate_limit.steps < MaxClockSteps
    /\ rate_limit' = [rate_limit EXCEPT !.now = @ + d, !.steps = @ + 1]
    /\ UNCHANGED <<orchestratorVars, battlecard, orchestration, key_request, health,
                   construction, expert, roundtrip, observed>>

\* RateLimitMiddleware.dispatch for a request of client_ip: the old time stamps
\* of the client are dropped, then the request is answered 429 or recorded
\* and passed on (call_next, status_code 200); admitted is the record an
\* observer keeps of every request that was passed on
Dispatch(client_ip) ==
    /\ LET current_time == rate_limit.now
           kept == CleanOld(rate_limit.requests[client_ip], current_time - RateWindow)
       IN IF Len(kept) >= requests_per_minute
          THEN rate_limit' = [rate_limit EXCEPT
                                 !.requests[client_ip] = kept,
                                 !.last = [client |-> client_ip, status_code |-> 429]]
          ELSE rate_limit' = [rate_limit EXCEPT
                                 !.requests[client_ip] = Append(kept, current_time),
                                 !.admitted[client_ip] = Append(@, current_time),
                                 !.last = [client |-> client_ip, status_code |-> 200]]
    /\ UNCHANGED <<orchestratorVars, battlecard, orchestration, key_request, health,
                   construction, expert, roundtrip, observed>>

NextRateLimit ==
    \/ \E d \in RateClockSteps : RateClockAdvance(d)
    \/ \E k \in Clients : Dispatch(k)

SpecRateLimit == Init /\ [][NextRateLimit]_vars

\* ================================================================ claims
InsideExecute(c) == task[c].at \in {"executing", "sleeping"}
HoldsSlot(c) == pc[c] = "await_task"
InFlight == {c \in Callers : HoldsSlot(c)}

\* C1: with more concurrent callers than slots, the number of requests inside
\* the agent's execute() (attempts and backoff waits included) never exceeds
\* MAX_CONCURRENT.
C1_AtMostMaxConcurrentInsideExecute ==
    Cardinality({c \in Callers : InsideExecute(c)}) <= max_concurrent_requests

\* every slot is taken by a request inside execute() while another call waits
C1_Witness ==
    /\ NumCallers > max_concurrent_requests
    /\ Cardinality({c \in Callers : InsideExecute(c)}) = max_concurrent_requests
    /\ \E c \in Callers : pc[c] = "acquire"

ServedFromCache(c) == task[c].at = "finished" /\ ~validated[c]

\* C2: a call that hits the cache ends with the cached payload as its result,
\* without any agent.process() invocation and with every agent's counters
\* (request_count, error_count, total_processing_time) unchanged.
C2_CacheHitLeavesAgentUntouched ==
    [][\A c \in Callers :
          (task[c].at = "cache_get" /\ task'[c].at = "finished") =>
              /\ cache[CallKey(c)].present
              /\ task'[c].result = deserialize_value(cache[CallKey(c)].doc)
              /\ execCalls' = execCalls
              /\ agent' = agent]_vars

\* a task that finished on a cache hit
C2_Witness ==
    \E c \in Callers : ServedFromCache(c) /\ task[c].result.status = "success"
                       /\ agent[c] = NoAgent /\ execCalls[c] = 0

AtLookup(c) == task[c].at = "cache_get" \/ ServedFromCache(c)

C5_ValidateBeforeExecute ==
    \A c \in Callers :
        /\ execCalls[c] > 0 => validated[c]
        /\ (validated[c] /\ ~validate_input(call[c].input_data)) =>
              /\ execCalls[c] = 0
              /\ delays[c] = << >>
              /\ task[c] = Failed("ValueError")
              /\ agent[c].request_count = 1
              /\ agent[c].error_count = 1

\* a non-empty input that is no dict reached the wrapper and was rejected
C5_Witness ==
    \E c \in Callers :
        /\ validated[c]
        /\ ~validate_input(call[c].input_data)
        /\ task[c].at = "failed"

StrictlyIncreasing(s) == \A i \in 1..(Len(s) - 1) : s[i] < s[i + 1]

\* the request ended although every agent.process() call it made raised
\* TransientError: the retries ran out, or the deadline passed during a backoff
AllCallsTransient(c) ==
    /\ task[c].at = "failed"
    /\ \/ task[c].exc = "TransientError"
       \/ task[c].exc = "TimeoutError" /\ Len(delays[c]) = execCalls[c]

\* C6 as stated: an agent that raises TransientError on every call is invoked
\* exactly max_retries + 1 times, with strictly increasing delays.
C6_Original ==
    \A c \in Callers :
        AllCallsTransient(c) =>
            execCalls[c] = max_retries + 1 /\ StrictlyIncreasing(delays[c])

\* C6 amended: such an agent is invoked exactly max_retries + 1 times when the
\* request ends by retry exhaustion, and at most max_retries + 1 times when the
\* deadline ends it earlier; the delays are strictly increasing.
C6_RetriesUntilExhaustionOrDeadline ==
    \A c \in Callers :
        /\ execCalls[c] <= max_retries + 1
        /\ StrictlyIncreasing(delays[c])
        /\ task[c] = Failed("TransientError") =>
              execCalls[c] = max_retries + 1 /\ Len(delays[c]) = max_retries

\* retry exhaustion after max_retries + 1 calls
C6_Witness ==
    \E c \in Callers :
        /\ task[c] = Failed("TransientError")
        /\ execCalls[c] = max_retries + 1
        /\ delays[c] = <<1, 2, 4>>

NonTransient(exc) == exc \notin {None, "TransientError"}

\* C7: retry applies only to TransientError: once an agent.process() call has
\* raised a failure that is not a TransientError, no backoff delay and no
\* further call follow; the task has failed with that error.
C7_NoRetryAfterNonTransient ==
    \A c \in Callers :
        NonTransient(last_exception[c]) =>
            /\ task[c] = Failed(last_exception[c])
            /\ Len(delays[c]) = execCalls[c] - 1

C10_SlotsConserved ==
    /\ request_semaphore >= 0
    /\ request_semaphore + Cardinality(InFlight) = max_concurrent_requests

\* a request ended in an error, another by a return, and every slot is free
C10_Witness ==
    /\ \E c \in Callers : pc[c] = "idle" /\ outcome[c].kind = "raise"
                          /\ outcome[c].exc /= "ValidationError"
    /\ \E c \in Callers : pc[c] = "idle" /\ outcome[c].kind = "return"
    /\ request_semaphore = max_concurrent_requests

\* C11: a request for which cancel_request returned True while it was active
\* terminates Cancelled: process_with_agent ends by CancelledError, never by
\* returning a result or raising another error, and its slot and its handle
\* are released.
C11_CancelledRequestEndsCancelled ==
    [][\A c \in Callers :
          (cancel_result[c] /\ pc[c] = "await_task" /\ pc'[c] = "idle") =>
              /\ outcome'[c] = Raised("CancelledError")
              /\ generate_request_id(c) \notin active_requests'
              /\ request_semaphore' = request_semaphore + 1]_vars

\* C12: cancel_request for an id that is not in the active-request table
\* (never issued, completed, or already removed) returns False and changes
\* nothing: table, slots, tasks, cache and agent counters stay as they are,
\* however often it is repeated.
C12_CancelInactiveIsNoOp ==
    [][\A id \in Callers :
          id \notin active_requests =>
              /\ ~cancel_request(id)
              /\ ~cancel_result'[id]
              /\ CancelRequest(id) => UNCHANGED vars]_vars

\* a request was cancelled and has left; its id is inactive, and cancel_request
\* on it reports False
C12_Witness ==
    \E c \in Callers :
        /\ pc[c] = "idle"
        /\ outcome[c] = Raised("CancelledError")
        /\ generate_request_id(c) \notin active_requests
        /\ ~cancel_request(generate_request_id(c))
        /\ ~cancel_result[c]

\* a cache entry was created or overwritten in this step
CacheWritten == \E k \in CacheKeys : cache'[k].present /\ cache'[k] /= cache[k]

EntriesAreSuccess(store) ==
    \A k \in CacheKeys :
        store[k].present => deserialize_value(store[k].doc).status = "success"

\* C13 as stated: every cache entry holds a result of status success, and an
\* entry is created or overwritten only by a request that ends by returning
\* that result: never by one that ends by exception, timeout or cancellation.
C13_Original ==
    [][/\ EntriesAreSuccess(cache')
       /\ \A c \in Callers :
             (CacheWritten /\ task'[c] /= task[c]) => task'[c].at = "finished"]_vars

\* C13 amended: every cache entry holds a result of status success; an entry
\* is created or overwritten only by the write-through of a request whose
\* agent returned status success, and that request then returns the result or,
\* when it is cancelled while the write is in flight, ends Cancelled with the
\* entry written. Error results, exceptions and timeouts never write.
C13_OnlySuccessIsCached ==
    [][/\ EntriesAreSuccess(cache)
       /\ EntriesAreSuccess(cache')
       /\ \A c \in Callers :
             (CacheWritten /\ task'[c] /= task[c]) =>
                 /\ task[c].at = "cache_set"
                 /\ task[c].result.status = "success"
                 /\ cache'[CallKey(c)].doc = serialize_value(task[c].result)
                 /\ task'[c] \in {Finished(task[c].result), Cancelled}
       /\ \A c \in Callers :
             (task'[c] /= task[c] /\ task'[c].at \in {"failed", "finished"}
              /\ task[c].at /= "cache_set") => cache' = cache]_vars

\* a request missed an entry that exists (the store did not answer), its agent
\* returned status error, and the entry is still the success result
C13_Witness ==
    \E c \in Callers :
        /\ task[c].at = "finished"
        /\ task[c].result.status = "error"
        /\ cache[CallKey(c)].present
        /\ deserialize_value(cache[CallKey(c)].doc).status = "success"

\* C14: with the backing store unreachable CacheService.get answers a miss and
\* CacheService.set writes nothing, neither raises: the lookup goes on to the
\* agent (one agent.process() call for a valid input, ValueError for an
\* invalid one, never a failure of the cache), and after the agent's success
\* the task finishes with exactly the agent's result.
C14_UnreachableStoreIsBypassed ==
    [][/\ \A k \in CacheKeys : CacheGet(k, FALSE) = NoResult
       /\ \A c \in Callers :
             /\ CachedAiRequest(c, FALSE) =>
                   IF validate_input(call[c].input_data)
                   THEN task'[c].at = "executing" /\ execCalls'[c] = 1
                   ELSE task'[c] = Failed("ValueError")
             /\ CacheSet(c, FALSE) =>
                   cache' = cache /\ task'[c] = Finished(task[c].result)]_vars

\* a request executed although an entry for its key exists, and finished with
\* its own result while the entry still holds the other payload: neither its
\* lookup nor its write-through reached the store
C14_Witness ==
    \E c \in Callers :
        /\ task[c].at = "finished"
        /\ validated[c]
        /\ task[c].result.status = "success"
        /\ cache[CallKey(c)].present
        /\ cache[CallKey(c)].doc /= serialize_value(task[c].result)

Range(seq) == {seq[i] : i \in 1..Len(seq)}

\* a dict as a map: its fields with their values, whatever the insertion order
AsMap(input_data) == {<<p[1], Range(p[2])>> : p \in Range(input_data.items)}

SameMap(a, b) == a.type = b.type /\ AsMap(a) = AsMap(b)

\* C16: the derived cache key does not depend on the insertion order of the
\* input's fields, at the top level or inside a nested dict: every input that
\* is the same map, with the same agent type and model, gets the key that was
\* derived, and so the same cache entry.
C16_KeyIndependentOfInsertionOrder ==
    key_request.at = "done" =>
        \A b \in KeyInputs :
            SameMap(key_request.input_data, b) =>
                RequestKey(key_request.agent_type, b, key_request.model) = key_request.key

\* a key was derived, and an input with another insertion order at both depths
\* has the same key
C16_Witness ==
    /\ key_request.at = "done"
    /\ \E b \in KeyInputs :
          /\ SameMap(key_request.input_data, b)
          /\ b.items[1][1] /= key_request.input_data.items[1][1]
          /\ \E i, j \in 1..2 :
                /\ b.items[i][1] = key_request.input_data.items[j][1]
                /\ b.items[i][2] /= key_request.input_data.items[j][2]
          /\ RequestKey(key_request.agent_type, b, key_request.model) = key_request.key

\* C20: get_health_status reports healthy when 10 * error_count <=
\* request_count (request_count = 0 included), degraded when 10 * error_count >
\* request_count and 2 * error_count <= request_count, unhealthy when
\* 2 * error_count > request_count; total_requests and total_errors are the
\* counters.
C20_HealthClassification ==
    health.at = "reported" =>
        LET r == health.request_count
            e == health.error_count
        IN /\ health.report.status \in {"healthy", "degraded", "unhealthy"}
           /\ health.report.status = "healthy" <=> 10 * e <= r
           /\ health.report.status = "degraded" <=> (10 * e > r /\ 2 * e <= r)
           /\ health.report.status = "unhealthy" <=> 2 * e > r
           /\ health.report.total_requests = r
           /\ health.report.total_errors = e

\* an agent with exactly half of its requests failed was reported degraded
C20_Witness ==
    /\ health.at = "reported"
    /\ health.request_count > 0
    /\ 2 * health.error_count = health.request_count
    /\ health.report.status = "degraded"

\* the input of the generation step holds the data of the aggregation result
ContainsOutput(input_data, result) ==
    \E p \in Range(input_data.items) : p[1] = 2 /\ p[2] = << <<1, result.data>> >>

\* C17: in generate_battlecard the steps are invoked in order; the generation
\* step is invoked only after the aggregation step returned status success,
\* with an input that contains the aggregation step's data; when the
\* aggregation step fails (error status, exception, cancellation) the
\* generation step is not invoked and the pipeline ends by raising.
C17_StepsInOrderAndShortCircuit ==
    /\ battlecard.at /= "idle" =>
          \E n \in 1..Len(PipelineSteps) : battlecard.invoked = SubSeq(PipelineSteps, 1, n)
    /\ Len(battlecard.invoked) = 2 =>
          /\ battlecard.aggregation_result.status = "success"
          /\ ContainsOutput(battlecard.battlecard_input, battlecard.aggregation_result)
    /\ (battlecard.at = "done" /\ battlecard.aggregation_result.status /= "success") =>
          /\ battlecard.invoked = <<PipelineSteps[1]>>
          /\ battlecard.ended.kind = "raise"

\* the generation step was invoked with the aggregated data of a successful
\* aggregation step
C17_Witness ==
    /\ battlecard.invoked = PipelineSteps
    /\ battlecard.aggregation_result.status = "success"
    /\ ContainsOutput(battlecard.battlecard_input, battlecard.aggregation_result)

\* position of a step in the step order of the request
StepIndex(step, order) == CHOOSE i \in 1..Len(order) : order[i] = step

\* C18: when a step of OrchestrationAgent.process has failed (its sub-agent
\* returned an error status or raised), the result's steps_completed is exactly
\* the prefix of the step order that precedes the first failing step, and the
\* result is an error.
C18_TrailIsPrefixBeforeFailure ==
    (orchestration.at = "done" /\ orchestration.failed /= << >>) =>
        LET order == StepOrder(orchestration.input_data)
            k == StepIndex(orchestration.failed[1], order)
        IN /\ orchestration.steps_completed = SubSeq(order, 1, k - 1)
           /\ orchestration.result.error

\* C19: a pipeline never continues with partial data: once a step has failed
\* the pipeline is over with status error; no later step runs, and no step is
\* recorded as completed on empty, uncleaned or substitute data.
C19_NoContinuationOnPartialData ==
    /\ orchestration.failed /= << >> =>
          /\ orchestration.at = "done"
          /\ orchestration.result.status = "error"
    /\ orchestration.data.cleaned /= "uncleaned"
    /\ \A i \in 1..Len(orchestration.failed) :
          orchestration.failed[i] \notin Range(orchestration.steps_completed)

\* ---------------------------------------------------------------- C21
\* an error rate given in tenths of a percent
ErrorRateIs(permille) ==
    /\ health.request_count > 0
    /\ 1000 * health.error_count = permille * health.request_count

\* C21 as stated: an error rate of exactly 10.0% is reported degraded, one of
\* 10.1% degraded and one of 9.9% healthy.
C21_Original ==
    health.at = "reported" =>
        /\ ErrorRateIs(100) => health.report.status = "degraded"
        /\ ErrorRateIs(101) => health.report.status = "degraded"
        /\ ErrorRateIs(99) => health.report.status = "healthy"

\* C21 (amended): an error rate of exactly 10.0% (1 error in 10 requests, 100
\* in 1000) is reported healthy, one of 10.1% degraded and one of 9.9% healthy.
C21_ThresholdItselfIsHealthy ==
    health.at = "reported" =>
        /\ ErrorRateIs(100) => health.report.status = "healthy"
        /\ ErrorRateIs(101) => health.report.status = "degraded"
        /\ ErrorRateIs(99) => health.report.status = "healthy"

\* an agent with 100 errors in 1000 requests was reported healthy
C21_Witness ==
    /\ health.at = "reported"
    /\ health.request_count = 1000
    /\ health.error_count = 100
    /\ health.report.status = "healthy"

\* ---------------------------------------------------------------- C22
\* the call of caller c ends in this step
CallEnds(c) == pc[c] = "await_task" /\ pc'[c] = "idle"

\* the kind the claim assigns to the way the task ended
KindOfCause(t) ==
    CASE t.at = "cancelled" -> "CancelledError"
      [] t.at = "failed" /\ t.exc = "ValueError" -> "ValidationError"
      [] t.at = "failed" /\ t.exc = "TimeoutError" -> "TimeoutError"
      [] t.at = "failed" /\ t.exc = "TransientError" -> "TransientError"
      [] t.at = "failed" /\ t.exc = "PermanentError" -> "PermanentError"
      [] OTHER -> "InternalError"

\* C22: every terminal error result carries the one kind out of
\* {ValidationError, TimeoutError, TransientError, PermanentError,
\* CancelledError, InternalError} that matches its cause, and a retryable hint
\* that is false after a validation failure or a PermanentError and true after
\* an exhausted TransientError.
C22_ErrorKindMatchesCause ==
    [][\A c \in Callers :
          /\ (pc[c] = "idle" /\ outcome'[c] /= outcome[c] /\ outcome'[c].kind = "raise") =>
                /\ outcome'[c].exc = "ValidationError"
                /\ ~RetryableHint(outcome'[c].exc)
          /\ (CallEnds(c) /\ task[c].at \in {"failed", "cancelled"}) =>
                /\ outcome'[c].kind = "raise"
                /\ outcome'[c].exc = KindOfCause(task[c])
                /\ KindOfCause(task[c]) \in {"ValidationError", "PermanentError"} =>
                      ~RetryableHint(outcome'[c].exc)
                /\ KindOfCause(task[c]) = "TransientError" =>
                      RetryableHint(outcome'[c].exc)]_vars

\* ---------------------------------------------------------------- C23
\* C23: an orchestrator configured with MAX_CONCURRENT <= 0 is never
\* constructed, so no request is ever accepted by it (and none waits for a
\* slot that cannot become free).
C23_NonPositiveCapacityAbortsInit ==
    construction.MAX_CONCURRENT_AI_REQUESTS <= 0 =>
        /\ construction.at \in {"unconstructed", "aborted"}
        /\ \A c \in Callers : pc[c] = "idle"

\* ---------------------------------------------------------------- C24
\* caller c is blocked in 'async with self.request_semaphore'
WaitingForSlot(c) == pc[c] = "acquire" /\ ~SemaphoreFree

UpdatesCache ==
    \/ expert'.last.op = "update"
    \/ expert'.last.op = "process" /\ ~expert'.last.hit

\* C25: the in-process cache never holds more than cache_max_size entries;
\* a call of _update_cache leaves its key in the cache, and when it finds the
\* cache full it evicts exactly one entry, one whose timestamp no other entry
\* is older than.
C25_CacheSizeBounded ==
    [][/\ Len(expert'.cache) <= cache_max_size
       /\ UpdatesCache =>
            /\ expert'.last.key \in KeysOf(expert'.cache)
            /\ Len(expert.cache) >= cache_max_size =>
                  \E i \in DOMAIN expert.cache :
                      /\ \A j \in DOMAIN expert.cache :
                            expert.cache[i].timestamp <= expert.cache[j].timestamp
                      /\ KeysOf(expert'.cache) =
                            (KeysOf(expert.cache) \ {expert.cache[i].key})
                                \cup {expert'.last.key}]_vars

\* an insertion of a third key into a full cache whose entries differ in age
\* has evicted the older one
C25_Witness ==
    /\ expert.last.op = "update"
    /\ Len(expert.cache) = cache_max_size
    /\ expert.cache[Len(expert.cache)].key = expert.last.key
    /\ \A i \in 1..(Len(expert.cache) - 1) :
          /\ expert.cache[i].timestamp > 0
          /\ expert.cache[i].timestamp < expert.now

\* ---------------------------------------------------------------- C26
\* C26: process() on a key whose entry has an age (now - timestamp) of at
\* least the TTL, however large, does not return the stored result: the
\* lookup is a miss and the result is computed anew.
C26_ExpiredEntryIsMiss ==
    [][\A i \in DOMAIN expert.cache :
          (/\ expert'.last.op = "process"
           /\ expert'.last.key = expert.cache[i].key
           /\ expert.now - expert.cache[i].timestamp >= cache_ttl) =>
              /\ ~expert'.last.hit
              /\ expert'.last.result = Computed(expert.now)]_vars

\* ---------------------------------------------------------------- C27
\* C27 as stated: with the initial attempt as attempt 0, the delay slept
\* before attempt n (n = 1..max_retries) is retry_delay * 2^n, and no delay
\* follows the failure of the last attempt.
C27_Original ==
    \A c \in Callers :
        /\ \A n \in 1..Len(delays[c]) : delays[c][n] = retry_delay * (2 ^ n)
        /\ Len(delays[c]) <= max_retries
        /\ execCalls[c] = max_retries + 1 => Len(delays[c]) = max_retries

\* C27 (amended): the delay slept before attempt n (n = 1..max_retries) is
\* retry_delay * 2^(n - 1), and no delay follows the failure of the last
\* attempt.
C27_DelayDoublesFromBase ==
    \A c \in Callers :
        /\ \A n \in 1..Len(delays[c]) : delays[c][n] = retry_delay * (2 ^ (n - 1))
        /\ Len(delays[c]) <= max_retries
        /\ execCalls[c] = max_retries + 1 => Len(delays[c]) = max_retries

\* the last attempt runs after max_retries delays
C27_Witness ==
    \E c \in Callers :
        /\ task[c].at = "executing"
        /\ attempt[c] = max_retries
        /\ Len(delays[c]) = max_retries
        /\ delays[c][max_retries] = retry_delay * (2 ^ (max_retries - 1))

CancelDelivered(c) == must_cancel[c] /\ TaskPending(c) /\ task'[c] = Cancelled

\* a call that ends after its task was cancelled raises CancelledError: no
\* result is returned
ReportedCancelled(c) ==
    (CallEnds(c) /\ task[c].at = "cancelled") => outcome'[c] = Raised("CancelledError")

\* C29 as stated: a request cancelled while agent.process() or the cache
\* write-through is in flight is reported Cancelled, and its payload is neither
\* returned nor written to the cache.
C29_Original ==
    [][\A c \in Callers :
          /\ ReportedCancelled(c)
          /\ (CancelDelivered(c) /\ task[c].at \in {"executing", "cache_set"}) =>
                cache' = cache]_vars

\* C29 (amended): such a request is reported Cancelled and its payload is not
\* returned; cancelled during agent.process() it writes nothing to the cache,
\* cancelled during the write-through it may still have written its payload.
C29_CancelledPayloadNotReturned ==
    [][\A c \in Callers :
          /\ ReportedCancelled(c)
          /\ (CancelDelivered(c) /\ task[c].at = "executing") => cache' = cache
          /\ (CancelDelivered(c) /\ task[c].at = "cache_set") =>
                \/ cache' = cache
                \/ cache' = CacheSetEx(CallKey(c), task[c].result,
                                       call[c].options.cache_ttl)]_vars

\* a task was cancelled, its call has not resumed yet, and the cache holds an
\* entry under the request's key
C29_Witness ==
    \E c \in Callers :
        /\ pc[c] = "await_task"
        /\ task[c] = Cancelled
        /\ cache[CallKey(c)].present

\* ---------------------------------------------------------------- C30
\* the write-through of c's request creates or changes the entry in this step
WritesThrough(c) ==
    /\ task[c].at = "cache_set"
    /\ cache'[CallKey(c)].present
    /\ cache'[CallKey(c)] /= cache[CallKey(c)]

\* C30 as stated: the entry is written with the TTL of options['cache_ttl']
\* whenever the request supplies one, whatever its value, and with the default
\* TTL only when it supplies none.
C30_Original ==
    [][\A c \in Callers :
          WritesThrough(c) =>
              cache'[CallKey(c)].ttl =
                  IF call[c].options.cache_ttl = NoTtl THEN AI_CACHE_TTL
                  ELSE call[c].options.cache_ttl[1]]_vars

\* C30 (amended): the entry is written with the TTL of options['cache_ttl']
\* whenever the request supplies one that is not zero, and with the default
\* TTL when it supplies none or zero.
C30_TtlOverrideUnlessZero ==
    [][\A c \in Callers :
          WritesThrough(c) =>
              cache'[CallKey(c)].ttl =
                  IF call[c].options.cache_ttl \in {NoTtl, Ttl(0)} THEN AI_CACHE_TTL
                  ELSE call[c].options.cache_ttl[1]]_vars

\* a result was written through with the small TTL its request supplied
C30_Witness ==
    \E c \in Callers :
        /\ task[c].at = "finished"
        /\ call[c].options.cache_ttl = Ttl(SmallTtl)
        /\ cache[CallKey(c)].present
        /\ cache[CallKey(c)].ttl = SmallTtl

\* ---------------------------------------------------------------- C31
\* a value JSON represents exactly: a str, an int, a list of such values, a
\* dict of such values under str keys
RECURSIVE JsonNative(_)
JsonNative(value) ==
    CASE value.t \in {"str", "int"} -> TRUE
      [] value.t \in {"datetime", "tuple"} -> FALSE
      [] value.t = "list" -> \A i \in DOMAIN value.v : JsonNative(value.v[i])
      [] value.t = "dict" ->
            \A i \in DOMAIN value.v :
                value.v[i][1].t = "str" /\ JsonNative(value.v[i][2])

\* C31 as stated: for every value that set stored (set returned True), a get
\* before expiry returns a value identical to it.
C31_Original ==
    (roundtrip.at = "got" /\ roundtrip.returned) =>
        roundtrip.hit /\ roundtrip.got = roundtrip.value

\* C31 (amended): for every value made of strings, numbers, lists and dicts
\* with string keys that set stored, a get before expiry returns a value
\* identical to it.
C31_RoundTripOfJsonValues ==
    (roundtrip.at = "got" /\ roundtrip.returned /\ JsonNative(roundtrip.value)) =>
        roundtrip.hit /\ roundtrip.got = roundtrip.value

\* a dict that holds a list under a str key came back as it was stored
C31_Witness ==
    /\ roundtrip.at = "got"
    /\ roundtrip.returned
    /\ roundtrip.value = PyDict(<< <<PyStr(1), PyList(<<PyInt(1)>>)>> >>)
    /\ roundtrip.got = roundtrip.value

\* C32: the HealthStats of an agent type persist for the process lifetime:
\* the agent serving a request of the type reports as request_count the
\* number of requests of the type that have reached process_with_timeout so
\* far and as error_count the number of those that ended in an error.
C32_CountersPersist ==
    \A c \in Callers :
        agent[c].request_count > 0 =>
            /\ agent[c].request_count = observed.reached
            /\ agent[c].error_count = observed.errors

\* no task of _process_with_caching is still running
AllTerminated == \A c \in Callers : ~TaskPending(c)

\* C33: no update of an agent type's HealthStats is lost: error_count never
\* exceeds request_count, and once every request has terminated the agent
\* that served a request reports as request_count the number of requests
\* that reached process_with_timeout and as error_count the number of those
\* that ended in a validation failure, a timeout or a failure.
C33_NoUpdateLost ==
    \A c \in Callers :
        /\ agent[c].error_count <= agent[c].request_count
        /\ AllTerminated /\ TaskDone(c) /\ validated[c] =>
              /\ agent[c].request_count = observed.reached
              /\ agent[c].error_count = observed.errors

\* two callers whose executions of the same key have both answered
BothExecuted(c, d) ==
    /\ c /= d
    /\ CallKey(c) = CallKey(d)
    /\ task[c].at \in {"cache_set", "finished"}
    /\ task[d].at \in {"cache_set", "finished"}

\* C34: when calls with the same cache key miss and execute concurrently,
\* each caller keeps the result of its own execution whatever the others do,
\* a set that reaches the store leaves the setter's payload under the key
\* whatever was there before, and a caller whose execution succeeded is
\* returned a success.
C34_ConcurrentMissesLastWriteWins ==
    [][\A c \in Callers :
          task[c].at = "cache_set" =>
              /\ task'[c] \in {task[c], Finished(task[c].result)}
              /\ CacheSet(c, TRUE) =>
                    /\ cache'[CallKey(c)].present
                    /\ deserialize_value(cache'[CallKey(c)].doc) = task[c].result
              /\ pc'[c] = "idle" => outcome'[c] = Returned("success")]_vars

\* caller 1 has written the payload of its execution and finished, caller 2
\* has executed the same key concurrently with another payload and is about
\* to write it
C34_Witness ==
    /\ BothExecuted(1, 2)
    /\ task[1] = Finished(ResultOf("success", 1))
    /\ task[2] = [at |-> "cache_set", result |-> ResultOf("success", 2)]
    /\ CacheGet(CallKey(1), TRUE) = ResultOf("success", 1)

\* the result process_with_timeout has returned for the request, where it
\* returned one: what the task of a successful request holds before the
\* write-through
WrapperResult(c) == task[c].result

\* C35: a result the wrapper returns on success carries metrics whose
\* attemptCount is the number of agent.process() invocations of the request,
\* total_processing_time has grown by the request's latency, and a request
\* that ended in an error has left total_processing_time as it was.
C35_MetricsAttachedOnSuccess ==
    \A c \in Callers :
        /\ task[c].at = "cache_set" =>
              /\ "metrics" \in DOMAIN WrapperResult(c)
              /\ WrapperResult(c).metrics.attemptCount = execCalls[c]
              /\ agent[c].total_processing_time = elapsed[c]
        /\ task[c].at = "failed" => agent[c].total_processing_time = 0

\* caller c's call is refused by the argument checks in this step
Refused(c) ==
    /\ pc[c] = "idle"
    /\ outcome'[c] = Raised("ValidationError")
    /\ outcome'[c] /= outcome[c]

\* C36: a process_with_agent call with an empty agent type, an empty input
\* or an unregistered agent type never gets past the argument checks, and the
\* step that refuses it with ValidationError leaves the semaphore, the
\* active-request table, the cache, every task and every agent untouched.
C36_RefusedBeforeAnyStateIsTouched ==
    [][\A c \in Callers :
          /\ pc[c] = "idle" /\ pc'[c] = "acquire" =>
                /\ call'[c].agent_type /= ""
                /\ Len(call'[c].input_data.items) > 0
                /\ call'[c].agent_type \in list_available_agents
          /\ Refused(c) =>
                /\ pc'[c] = "idle"
                /\ UNCHANGED <<request_semaphore, active_requests, cache, task,
                               agent, execCalls, validated>>]_vars

\* a refused call of caller 1 while caller 2 holds the slot
C36_Witness ==
    /\ outcome[1] = Raised("ValidationError")
    /\ pc[1] = "idle"
    /\ pc[2] = "await_task"
    /\ task[1] = NoTask
    /\ active_requests = {generate_request_id(2)}

\* the requests that hold a capacity slot and whose task has been created
SlotHoldersWithTask == {c \in Callers : pc[c] = "await_task" /\ task[c] /= NoTask}

\* C37: the number of entries of the active-request table, as get_status
\* reports it, is at most MAX_CONCURRENT and is the number of requests that
\* hold a capacity slot and whose task has been created.
C37_ActiveRequestsReported ==
    /\ get_status.active_requests <= get_status.max_concurrent
    /\ get_status.active_requests = Cardinality(SlotHoldersWithTask)

\* the table is full, one of its requests has ended without having been
\* collected yet, and a further call waits for a slot
C37_Witness ==
    /\ get_status.active_requests = get_status.max_concurrent
    /\ \E c \in SlotHoldersWithTask : TaskDone(c)
    /\ \E c \in Callers : pc[c] = "acquire"

\* C38: requests that differ in agent type or in model preference never
\* share a cache entry: whatever the input, the key of a request with another
\* (agent type, model) pair differs from the key that was derived.
C38_KeysSeparateAgentTypeAndModel ==
    key_request.at = "done" =>
        \A a \in KeyAgentTypes, m \in KeyModels :
            <<a, m>> /= <<key_request.agent_type, key_request.model>> =>
                \A b \in KeyInputs : RequestKey(a, b, m) /= key_request.key

\* the number of requests of the client that were passed on less than 60
\* seconds ago
YoungAdmitted(k) ==
    Cardinality({i \in DOMAIN rate_limit.admitted[k] :
                    rate_limit.now - rate_limit.admitted[k][i] < RateWindow})

\* no 60-second window that starts at one of the times holds more than
\* requests_per_minute of them
WithinLimit(times) ==
    \A i \in DOMAIN times :
        Cardinality({j \in DOMAIN times :
                        times[i] <= times[j] /\ times[j] < times[i] + RateWindow})
            <= requests_per_minute

\* C39: a request is answered 429 exactly when its client already has
\* requests_per_minute passed-on requests younger than 60 seconds; a rejected
\* request is not recorded; a request changes no other client's time stamps;
\* and no client has more than requests_per_minute requests passed on within
\* a 60-second window.
C39_AtMostLimitPerClientAndWindow ==
    [][\A k \in Clients :
          Dispatch(k) =>
              /\ rate_limit'.last.status_code = 429
                    <=> YoungAdmitted(k) >= requests_per_minute
              /\ rate_limit'.last.status_code = 429 =>
                    /\ rate_limit'.admitted = rate_limit.admitted
                    /\ Len(rate_limit'.requests[k]) <= Len(rate_limit.requests[k])
              /\ \A j \in Clients \ {k} :
                    /\ rate_limit'.requests[j] = rate_limit.requests[j]
                    /\ rate_limit'.admitted[j] = rate_limit.admitted[j]
              /\ WithinLimit(rate_limit'.admitted[k])]_vars

\* client 1 used up its limit, was admitted again a window later, used up
\* the limit again and is rejected, while client 2 has been admitted meanwhile
C39_Witness ==
    /\ rate_limit.last = [client |-> 1, status_code |-> 429]
    /\ Len(rate_limit.admitted[1]) = 2 * requests_per_minute
    /\ Len(rate_limit.admitted[2]) > 0
    /\ YoungAdmitted(1) = requests_per_minute

====
